---- MODULE Spec2Model ----
(***************************************************************************)
(* A model of the GNTP server of gntp_notify: the directive-line parser    *)
(* and dispatch table (server/server.go ServeMux), the connection task     *)
(* (conn.serve), the accept loop (Server.Start / Server.Exit) and the      *)
(* REGISTER / NOTIFY handlers (handlers.go).                                *)
(*                                                                         *)
(* Go strings whose bytes the code inspects are sequences of one-character *)
(* strings, indexed from 1 (Go's s[i] is s[i+1] here).                     *)
(***************************************************************************)
EXTENDS Integers, Sequences, FiniteSets, TLC

\* ------------------------------------------------------------ bounds

\* Longest version body (the part after the protocol prefix) enumerated
\* exhaustively over VersionAlphabet.
MaxBody == 3

\* Number of connections the accept loop may accept in one run.
MaxConns == 1

\* Number of Register calls made on the dispatch table in one run.
MaxRegs == 2

\* Temporary Accept errors injected into one run of the accept loop.
MaxTempErrors == 1

\* Temporary Accept errors injected into one run of the accept loop taken
\* on its own: enough of them in a row for the backoff to reach its cap.
MaxBackoff == 10

\* Number of tasks that look handlers up in the dispatch table at once.
MaxReaders == 3

\* Number of requests handled on the application registry in one run.
MaxTasks == 3

\* ------------------------------------------------------------ strings

\* F applied to the value of v, which is computed once.
WithValue(v, F(_)) == CHOOSE r \in {F(x) : x \in {v}} : TRUE

Digits == {"0", "1", "2", "3", "4", "5", "6", "7", "8", "9"}

IsDigit(ch) == ch \in Digits

\* int(s[i] - '0')
DigitVal(ch) ==
  CASE ch = "0" -> 0 [] ch = "1" -> 1 [] ch = "2" -> 2 [] ch = "3" -> 3
    [] ch = "4" -> 4 [] ch = "5" -> 5 [] ch = "6" -> 6 [] ch = "7" -> 7
    [] ch = "8" -> 8 [] ch = "9" -> 9

\* Index (from 1) of the first ch in s at or after position from; 0 if none.
RECURSIVE IndexFrom(_, _, _)
IndexFrom(s, ch, from) ==
  IF from > Len(s) THEN 0
  ELSE IF s[from] = ch THEN from
  ELSE IndexFrom(s, ch, from + 1)

\* strings.SplitN(s, " ", 3)
SplitN3(s) ==
  LET i1 == IndexFrom(s, " ", 1) IN
  IF i1 = 0 THEN <<s>>
  ELSE LET i2 == IndexFrom(s, " ", i1 + 1) IN
       IF i2 = 0
       THEN <<SubSeq(s, 1, i1 - 1), SubSeq(s, i1 + 1, Len(s))>>
       ELSE <<SubSeq(s, 1, i1 - 1), SubSeq(s, i1 + 1, i2 - 1),
              SubSeq(s, i2 + 1, Len(s))>>

sGNTP == <<"G", "N", "T", "P", "/">>
sNONE == <<"N", "O", "N", "E">>
sREGISTER == <<"R", "E", "G", "I", "S", "T", "E", "R">>
sNOTIFY == <<"N", "O", "T", "I", "F", "Y">>
sFOO == <<"F", "O", "O">>

\* ------------------------------------------------------------ errors

\* A Go error value. dyn is its dynamic type: "GntpError" (the struct by
\* value), "*GntpError" (a pointer to it) or "other" (any other error).
NoError == [dyn |-> "nil"]

OtherError(what) == [dyn |-> "other", what |-> what]

\* Description is the sequence of pieces the constructor concatenates.
GntpErrorValue(code, pieces) ==
  [dyn |-> "GntpError", Code |-> code, Description |-> pieces]

\* The same error behind a pointer (&GntpError{...}).
GntpErrorPointer(code, pieces) ==
  [dyn |-> "*GntpError", Code |-> code, Description |-> pieces]

UnknownRequestTypeError(t) ==
  GntpErrorValue(300, <<"Unknown or unsupported directive type: ", t>>)

InvalidRequestError(info) ==
  GntpErrorValue(300, <<"The request was malformed: ", info>>)

UnknownProtocolError(p) == GntpErrorValue(301, <<"Unknown protocol: ", p>>)

UnknownProtocolVersionError(major, minor) ==
  GntpErrorValue(302, <<"Unknown protocol version: ", major, ".", minor>>)

\* A missing header reported as a malformed request.
MissingHeaderError_Malformed(header) == InvalidRequestError(header)

MissingHeaderError(header) ==
  GntpErrorValue(303, <<"Required header ", header, " missing">>)

UnknownApplicationError(name) ==
  GntpErrorValue(400, <<"Application ", name, " not known">>)

UnknownNotificationError(app, name) ==
  GntpErrorValue(401, <<"Notification ", name, " not known for ", app>>)

InternalServerError ==
  GntpErrorValue(500, <<"The server encountered an internal error">>)

\* ------------------------------------------------------------ version

Big == 1000000

AtoiFail == [n |-> 0, i |-> 0, ok |-> FALSE]

\* The loop of atoi: i is Go's 0-based index into s.
RECURSIVE atoiLoop(_, _, _)
atoiLoop(s, i, n) ==
  IF i < Len(s) /\ IsDigit(s[i + 1])
  THEN LET n2 == n * 10 + DigitVal(s[i + 1]) IN
       IF n2 > Big THEN AtoiFail ELSE atoiLoop(s, i + 1, n2)
  ELSE [n |-> n, i |-> i, ok |-> TRUE]

\* atoi without the n > Big check (strconv.Atoi in its place).
RECURSIVE atoiLoop_NoLimit(_, _, _)
atoiLoop_NoLimit(s, i, n) ==
  IF i < Len(s) /\ IsDigit(s[i + 1])
  THEN atoiLoop_NoLimit(s, i + 1, n * 10 + DigitVal(s[i + 1]))
  ELSE [n |-> n, i |-> i, ok |-> TRUE]

atoi_NoLimit(s, i) ==
  IF i >= Len(s) \/ ~IsDigit(s[i + 1]) THEN AtoiFail
  ELSE atoiLoop_NoLimit(s, i, 0)

atoi(s, i) ==
  IF i >= Len(s) \/ ~IsDigit(s[i + 1]) THEN AtoiFail ELSE atoiLoop(s, i, 0)

VersionFail == [major |-> 0, minor |-> 0, ok |-> FALSE]

parseGntpVersion(version) ==
  IF Len(version) < 5 \/ SubSeq(version, 1, 5) # sGNTP THEN VersionFail
  ELSE LET a == atoi(version, 5) IN
       IF ~a.ok \/ a.i >= Len(version) \/ version[a.i + 1] # "."
       THEN VersionFail
       ELSE LET b == atoi(version, a.i + 1) IN
            IF ~b.ok \/ b.i # Len(version) THEN VersionFail
            ELSE [major |-> a.n, minor |-> b.n, ok |-> TRUE]

\* ------------------------------------------------------------ headers

\* The header names the code uses, as Go string literals.
sKeys ==
  [ApplicationIcon |->
     <<"A", "p", "p", "l", "i", "c", "a", "t",
       "i", "o", "n", "-", "I", "c", "o", "n">>,
   ApplicationName |->
     <<"A", "p", "p", "l", "i", "c", "a", "t",
       "i", "o", "n", "-", "N", "a", "m", "e">>,
   ErrorCode |->
     <<"E", "r", "r", "o", "r", "-", "C", "o", "d", "e">>,
   ErrorDescription |->
     <<"E", "r", "r", "o", "r", "-", "D", "e",
       "s", "c", "r", "i", "p", "t", "i", "o", "n">>,
   Identifier |->
     <<"I", "d", "e", "n", "t", "i", "f", "i", "e", "r">>,
   Length |->
     <<"L", "e", "n", "g", "t", "h">>,
   NotificationDisplay |->
     <<"N", "o", "t", "i", "f", "i", "c", "a", "t", "i",
       "o", "n", "-", "D", "i", "s", "p", "l", "a", "y">>,
   NotificationEnabled |->
     <<"N", "o", "t", "i", "f", "i", "c", "a", "t", "i",
       "o", "n", "-", "E", "n", "a", "b", "l", "e", "d">>,
   NotificationIcon |->
     <<"N", "o", "t", "i", "f", "i", "c", "a",
       "t", "i", "o", "n", "-", "I", "c", "o", "n">>,
   NotificationName |->
     <<"N", "o", "t", "i", "f", "i", "c", "a",
       "t", "i", "o", "n", "-", "N", "a", "m", "e">>,
   NotificationTitle |->
     <<"N", "o", "t", "i", "f", "i", "c", "a", "t",
       "i", "o", "n", "-", "T", "i", "t", "l", "e">>,
   NotificationsCount |->
     <<"N", "o", "t", "i", "f", "i", "c", "a", "t",
       "i", "o", "n", "s", "-", "C", "o", "u", "n", "t">>,
   ResponseAction |->
     <<"R", "e", "s", "p", "o", "n", "s",
       "e", "-", "A", "c", "t", "i", "o", "n">>]

\* A Header is a function from MIME keys to non-empty sequences of values.
\* Keys and values are Go strings.
NewHeader == <<>>

sLetters ==
  [lower |-> <<"a", "b", "c", "d", "e", "f", "g", "h", "i", "j", "k", "l", "m",
               "n", "o", "p", "q", "r", "s", "t", "u", "v", "w", "x", "y", "z">>,
   upper |-> <<"A", "B", "C", "D", "E", "F", "G", "H", "I", "J", "K", "L", "M",
               "N", "O", "P", "Q", "R", "S", "T", "U", "V", "W", "X", "Y", "Z">>]

ToUpper(ch) ==
  IF \E i \in 1..26 : sLetters.lower[i] = ch
  THEN sLetters.upper[CHOOSE i \in 1..26 : sLetters.lower[i] = ch]
  ELSE ch

ToLower(ch) ==
  IF \E i \in 1..26 : sLetters.upper[i] = ch
  THEN sLetters.lower[CHOOSE i \in 1..26 : sLetters.upper[i] = ch]
  ELSE ch

\* The bytes textproto accepts in a header field name.
IsFieldByte(ch) ==
  \/ \E i \in 1..26 : sLetters.lower[i] = ch \/ sLetters.upper[i] = ch
  \/ IsDigit(ch)
  \/ ch \in {"-", "_", ".", "!", "#", "$", "%", "&", "*", "+", "^", "|", "~"}

\* A canonicalization that only upper-cases the first letter.
CanonicalMIMEHeaderKey_FirstOnly(s) ==
  [i \in 1..Len(s) |-> IF i = 1 THEN ToUpper(s[i]) ELSE s[i]]

\* textproto.CanonicalMIMEHeaderKey: the first letter and every letter
\* after a hyphen in upper case, the other letters in lower case; a key
\* with a byte that is not a field byte is returned as it is.
CanonicalMIMEHeaderKey(s) ==
  IF \E i \in 1..Len(s) : ~IsFieldByte(s[i]) THEN s
  ELSE [i \in 1..Len(s) |->
          IF i = 1 \/ s[i - 1] = "-" THEN ToUpper(s[i]) ELSE ToLower(s[i])]

\* Header.Get: the first value and true, or "" and false.
HeaderGet(h, key) ==
  LET k == CanonicalMIMEHeaderKey(key) IN
  IF k \in DOMAIN h THEN [v |-> h[k][1], ok |-> TRUE]
  ELSE [v |-> <<>>, ok |-> FALSE]

\* Header.Set: overwrites the values of key.
HeaderSet(h, key, value) ==
  LET k == CanonicalMIMEHeaderKey(key) IN
  [x \in (DOMAIN h) \cup {k} |-> IF x = k THEN <<value>> ELSE h[x]]

\* Header.Add: appends to the values of key.
HeaderAdd(h, key, value) ==
  LET k == CanonicalMIMEHeaderKey(key) IN
  [x \in (DOMAIN h) \cup {k} |->
     IF x = k THEN (IF k \in DOMAIN h THEN Append(h[k], value) ELSE <<value>>)
     ELSE h[x]]

\* Bytes of header values and of the wire: "CR", "LF" and "TAB" stand for
\* the control bytes, every other byte is its character.

\* newlineToSpace.Replace
newlineToSpace(v) ==
  [i \in 1..Len(v) |-> IF v[i] \in {"LF", "CR"} THEN " " ELSE v[i]]

RECURSIVE TrimLeft(_, _)
TrimLeft(v, cutset) ==
  IF Len(v) > 0 /\ v[1] \in cutset THEN TrimLeft(Tail(v), cutset) ELSE v

RECURSIVE TrimRight(_, _)
TrimRight(v, cutset) ==
  IF Len(v) > 0 /\ v[Len(v)] \in cutset
  THEN TrimRight(SubSeq(v, 1, Len(v) - 1), cutset)
  ELSE v

\* strings.TrimSpace
TrimSpace(v) ==
  TrimRight(TrimLeft(v, {" ", "TAB", "CR", "LF"}), {" ", "TAB", "CR", "LF"})

\* The inner loop of Header.Write: one "key: value\r\n" line for each value.
RECURSIVE WriteValues(_, _)
WriteValues(k, vs) ==
  IF Len(vs) = 0 THEN <<>>
  ELSE k \o <<":", " ">> \o TrimSpace(newlineToSpace(vs[1])) \o <<"CR", "LF">>
       \o WriteValues(k, Tail(vs))

\* A Header.Write that writes the first value of each key only.
RECURSIVE HeaderWrite_FirstValue(_, _)
HeaderWrite_FirstValue(h, order) ==
  IF Len(order) = 0 THEN <<>>
  ELSE WriteValues(order[1], <<h[order[1]][1]>>)
       \o HeaderWrite_FirstValue(h, Tail(order))

\* Header.Write: the bytes written, the keys ranged over in the given order.
RECURSIVE HeaderWrite(_, _)
HeaderWrite(h, order) ==
  IF Len(order) = 0 THEN <<>>
  ELSE WriteValues(order[1], h[order[1]]) \o HeaderWrite(h, Tail(order))

\* The offset after the line that starts at off in wire bytes.
LineEnd(bytes, off) ==
  LET lfs == {j \in (off + 1)..Len(bytes) : bytes[j] = "LF"} IN
  IF off >= Len(bytes) THEN off
  ELSE IF lfs = {} THEN Len(bytes)
  ELSE CHOOSE j \in lfs : \A m \in lfs : j <= m

\* textproto's line reading: the line that starts at off without its
\* end-of-line marker ("\n" or "\r\n").
LineAt(bytes, off) ==
  LET end == LineEnd(bytes, off)
      raw == SubSeq(bytes, off + 1, end)
      cut == IF Len(raw) > 0 /\ raw[Len(raw)] = "LF"
             THEN SubSeq(raw, 1, Len(raw) - 1) ELSE raw
  IN IF Len(cut) > 0 /\ cut[Len(cut)] = "CR" /\ Len(raw) > Len(cut)
     THEN SubSeq(cut, 1, Len(cut) - 1) ELSE cut

\* textproto.Reader.ReadMIMEHeader on wire bytes whose lines are not
\* continued (none starts with a space or a tab): every line up to the
\* first empty one is split at its first colon into a key, canonicalized,
\* and a value without the white space around it.
RECURSIVE ParseMIMEHeader(_, _, _)
ParseMIMEHeader(bytes, off, h) ==
  IF off >= Len(bytes) THEN [h |-> h, err |-> OtherError("EOF"), off |-> off]
  ELSE
  WithValue(LineEnd(bytes, off), LAMBDA end :
  WithValue(TrimRight(TrimLeft(LineAt(bytes, off), {" ", "TAB"}), {" ", "TAB"}),
            LAMBDA kv :
  LET colons == {j \in 1..Len(kv) : kv[j] = ":"}
      i == IF colons = {} THEN 0
           ELSE CHOOSE j \in colons : \A m \in colons : j <= m
  IN
  IF Len(kv) = 0 THEN [h |-> h, err |-> NoError, off |-> end]
  ELSE IF i = 0
  THEN [h |-> h, err |-> OtherError("malformed MIME header line"), off |-> end]
  ELSE WithValue(HeaderAdd(h, SubSeq(kv, 1, i - 1),
                           TrimLeft(SubSeq(kv, i + 1, Len(kv)), {" ", "TAB"})),
                 LAMBDA h2 : ParseMIMEHeader(bytes, end, h2))))

\* Value of a non-empty sequence of decimal digits.
RECURSIVE DecVal(_)
DecVal(d) ==
  IF Len(d) = 0 THEN 0
  ELSE DecVal(SubSeq(d, 1, Len(d) - 1)) * 10 + DigitVal(d[Len(d)])

\* strconv.Atoi on the short values used here (no overflow): an optional
\* sign followed by at least one digit.
strconvAtoi(s) ==
  LET signed == Len(s) > 0 /\ s[1] \in {"-", "+"}
      d == IF signed THEN Tail(s) ELSE s
  IN IF Len(d) = 0 \/ \E i \in 1..Len(d) : ~IsDigit(d[i])
     THEN [n |-> 0, ok |-> FALSE]
     ELSE [n |-> IF s[1] = "-" THEN 0 - DecVal(d) ELSE DecVal(d), ok |-> TRUE]

\* a <= b for two digit sequences of the same length
RECURSIVE DigitsLeq(_, _)
DigitsLeq(a, b) ==
  IF Len(a) = 0 THEN TRUE
  ELSE IF DigitVal(a[1]) # DigitVal(b[1]) THEN DigitVal(a[1]) < DigitVal(b[1])
  ELSE DigitsLeq(Tail(a), Tail(b))

\* digits without their leading zeros
RECURSIVE Significant(_)
Significant(d) ==
  IF Len(d) > 0 /\ d[1] = "0" THEN Significant(Tail(d)) ELSE d

\* strconv.ParseInt(s, 10, 64): ok is false for a syntax or range error
\* (the range test is exact for non-negative values).  A magnitude below
\* 10^9 is held in n; a larger one has wide set and is known by its sign
\* and its number of digits.
strconvParseInt64(s) ==
  LET signed == Len(s) > 0 /\ s[1] \in {"-", "+"}
      d == IF signed THEN Tail(s) ELSE s
      sig == Significant(d)
      sMaxInt64 == <<"9", "2", "2", "3", "3", "7", "2", "0", "3", "6", "8", "5",
                     "4", "7", "7", "5", "8", "0", "7">>
  IN IF Len(d) = 0 \/ \E i \in 1..Len(d) : ~IsDigit(d[i])
     THEN [n |-> 0, ok |-> FALSE, wide |-> FALSE, neg |-> FALSE,
           ndigits |-> 0]
     ELSE IF Len(sig) > 19 \/ (Len(sig) = 19 /\ ~DigitsLeq(sig, sMaxInt64))
     THEN [n |-> 0, ok |-> FALSE, wide |-> FALSE, neg |-> FALSE,
           ndigits |-> Len(sig)]
     ELSE IF Len(sig) > 9
     THEN [n |-> 0, ok |-> TRUE, wide |-> TRUE, neg |-> s[1] = "-",
           ndigits |-> Len(sig)]
     ELSE [n |-> IF s[1] = "-" THEN 0 - DecVal(sig) ELSE DecVal(sig),
           ok |-> TRUE, wide |-> FALSE,
           neg |-> s[1] = "-" /\ DecVal(sig) > 0, ndigits |-> Len(sig)]

\* strconv.Itoa for non-negative n.
RECURSIVE strconvItoa(_)
strconvItoa(n) ==
  LET d == CHOOSE ch \in Digits : DigitVal(ch) = n % 10 IN
  IF n < 10 THEN <<d>> ELSE Append(strconvItoa(n \div 10), d)

\* ------------------------------------------------------------ requests

\* new(Request)
NewRequest ==
  [nil |-> FALSE, Major |-> 0, Minor |-> 0, Type |-> <<>>, Headers |-> <<>>,
   Binaries |-> <<>>]

NilRequest == [nil |-> TRUE]

NilResponse == [nil |-> TRUE]

\* NewResponse(major, minor)
NewResponse(major, minor) ==
  [nil |-> FALSE, Major |-> major, Minor |-> minor, Type |-> "OK",
   Headers |-> <<NewHeader>>, Binaries |-> <<>>]

\* GntpError.Response
GntpErrorResponse(g) ==
  [nil |-> FALSE, Major |-> 1, Minor |-> 0, Type |-> "ERROR",
   Headers |-> <<HeaderSet(HeaderSet(NewHeader, sKeys.ErrorDescription,
                                     g.Description),
                           sKeys.ErrorCode, strconvItoa(g.Code))>>,
   Binaries |-> <<>>]

\* Response.write into the connection's buffered writer: the chunks
\* written, in order, and whether the call panicked.  order is the order in
\* which the range over resp.Binaries visits the identifiers.  A nil
\* response panics on resp.Version before anything is written; a nil
\* *Binary panics on binary.Length after its Identifier line.
RECURSIVE WriteBinaries(_, _)
WriteBinaries(bins, order) ==
  IF Len(order) = 0 THEN [out |-> <<>>, panicked |-> FALSE]
  ELSE LET id == order[1]
           b == bins[id]
           idLine == [k |-> "line", text |-> <<"Identifier: ", id>>]
       IN IF b.nil THEN [out |-> <<idLine>>, panicked |-> TRUE]
          ELSE LET rest == WriteBinaries(bins, Tail(order)) IN
               [out |-> <<idLine,
                          [k |-> "line", text |-> <<"Length: ", b.Length>>],
                          [k |-> "data", bytes |-> b.Data],
                          [k |-> "line", text |-> <<>>]>> \o rest.out,
                panicked |-> rest.panicked]

RECURSIVE WriteHeaders(_)
WriteHeaders(hs) ==
  IF Len(hs) = 0 THEN <<>>
  ELSE <<[k |-> "header", h |-> hs[1]], [k |-> "line", text |-> <<>>]>>
       \o WriteHeaders(Tail(hs))

ResponseWrite(resp, order) ==
  IF resp.nil THEN [out |-> <<>>, panicked |-> TRUE]
  ELSE LET directive == [k |-> "directive", Major |-> resp.Major,
                         Minor |-> resp.Minor, Type |-> resp.Type,
                         Security |-> "NONE"]
           bins == WriteBinaries(resp.Binaries, order)
       IN [out |-> <<directive>> \o WriteHeaders(resp.Headers) \o bins.out,
           panicked |-> bins.panicked]

\* ------------------------------------------------------------ streams

\* What a connection's reader yields: the directive line (if the peer sent
\* one before the stream ended), the MIME header blocks that follow it, each
\* as ReadMIMEHeader returns it, and the raw bytes (payloads and their
\* end-of-line markers) that follow the header blocks of binary sections.
\* A position counts what has been consumed: n = 0 nothing, 1 the directive
\* line, 1 + k the first k header blocks; off the raw bytes.
Stream(line, items, bytes) ==
  [hasLine |-> TRUE, line |-> line, items |-> items, bytes |-> bytes]

EmptyStream == [hasLine |-> FALSE, line |-> <<>>, items |-> <<>>, bytes |-> <<>>]

StartPos == [n |-> 0, off |-> 0]

\* textproto.Reader.ReadLine on a fresh stream
ReadLine(stream, pos) ==
  IF pos.n = 0 /\ stream.hasLine
  THEN [s |-> stream.line, err |-> NoError, pos |-> [pos EXCEPT !.n = 1]]
  ELSE [s |-> <<>>, err |-> OtherError("EOF"), pos |-> pos]

\* textproto.Reader.ReadMIMEHeader.  Past the header blocks of the stream
\* it reads the raw bytes, line by line up to the first empty one.
ReadMIMEHeader(stream, pos) ==
  IF pos.n >= 1 /\ pos.n <= Len(stream.items)
  THEN [h |-> stream.items[pos.n], err |-> NoError,
        pos |-> [pos EXCEPT !.n = pos.n + 1]]
  ELSE IF pos.n > Len(stream.items) /\ pos.off < Len(stream.bytes)
  THEN LET r == ParseMIMEHeader(stream.bytes, pos.off, NewHeader) IN
       [h |-> r.h, err |-> r.err, pos |-> [pos EXCEPT !.off = r.off]]
  ELSE [h |-> NewHeader, err |-> OtherError("EOF"), pos |-> pos]

\* ------------------------------------------------------------ binaries

sResourcePrefix ==
  <<"x", "-", "g", "r", "o", "w", "l", "-", "r", "e", "s", "o", "u", "r",
    "c", "e", ":", "/", "/">>

\* strings.HasPrefix
HasPrefix(s, prefix) ==
  Len(s) >= Len(prefix) /\ SubSeq(s, 1, Len(prefix)) = prefix

\* A count loop that counts every header value.
ResourceCount_AllValues(headers) ==
  Cardinality(UNION {UNION {{<<i, k, j>> : j \in 1..Len(headers[i][k])}
                            : k \in DOMAIN headers[i]}
                     : i \in 1..Len(headers)})

\* The count loop of ReadBinaries: header values that start with the
\* resource prefix, as HasPrefix compares them (byte for byte).
ResourceCount(headers) ==
  Cardinality({t \in UNION {UNION {{<<i, k, j>> : j \in 1..Len(headers[i][k])}
                                   : k \in DOMAIN headers[i]}
                            : i \in 1..Len(headers)}
                 : HasPrefix(headers[t[1]][t[2]][t[3]], sResourcePrefix)})

\* FileCache.Add up to its read: make([]byte, length) panics for a negative
\* length and for one beyond what the runtime allocates (at most 2^48
\* bytes, a number of 15 digits), before anything is read; io.ReadFull
\* takes length bytes or reports a short stream.
FileCacheAdd(stream, pos, length) ==
  IF length.neg \/ (length.wide /\ length.ndigits >= 16)
  THEN [panicked |-> TRUE, short |-> FALSE, pos |-> pos]
  ELSE IF length.wide \/ Len(stream.bytes) - pos.off < length.n
  THEN [panicked |-> FALSE, short |-> TRUE,
        pos |-> [pos EXCEPT !.off = Len(stream.bytes)]]
  ELSE [panicked |-> FALSE, short |-> FALSE,
        pos |-> [pos EXCEPT !.off = pos.off + length.n]]

\* The terminator loop of ReadBinaries, k markers still to read:
\* "eof" (ReadByte failed), "bad" (a byte that is not LF) or "ok".
RECURSIVE ReadTerminators(_, _, _)
ReadTerminators(stream, off, k) ==
  IF k = 0 THEN [res |-> "ok", off |-> off]
  ELSE IF off >= Len(stream.bytes) THEN [res |-> "eof", off |-> off]
  ELSE LET first == stream.bytes[off + 1] IN
       IF first = "CR"
       THEN IF off + 1 >= Len(stream.bytes) THEN [res |-> "eof", off |-> off + 1]
            ELSE IF stream.bytes[off + 2] = "LF"
                 THEN ReadTerminators(stream, off + 2, k - 1)
                 ELSE [res |-> "bad", off |-> off + 2]
       ELSE IF first = "LF" THEN ReadTerminators(stream, off + 1, k - 1)
            ELSE [res |-> "bad", off |-> off + 1]

BinariesFail(err, pos, adds) ==
  [bs |-> <<>>, err |-> err, pos |-> pos, panicked |-> FALSE, adds |-> adds]

\* The section loop of ReadBinaries, n sections still to read.  adds lists
\* the calls made to the storage capability.
RECURSIVE ReadSections(_, _, _, _, _)
ReadSections(stream, pos, n, bs, adds) ==
  IF n = 0
  THEN [bs |-> bs, err |-> NoError, pos |-> pos, panicked |-> FALSE,
        adds |-> adds]
  ELSE
  WithValue(ReadMIMEHeader(stream, pos), LAMBDA r :
  IF r.err.dyn # "nil" THEN BinariesFail(r.err, r.pos, adds)
  ELSE IF sKeys.Identifier \notin DOMAIN r.h
  THEN BinariesFail(MissingHeaderError(<<"Binary Identifier">>), r.pos, adds)
  ELSE
  LET ident == r.h[sKeys.Identifier][1] IN
  IF sKeys.Length \notin DOMAIN r.h
  THEN BinariesFail(MissingHeaderError(<<"Length for binary ", ident>>),
                    r.pos, adds)
  ELSE
  WithValue(strconvParseInt64(r.h[sKeys.Length][1]), LAMBDA length :
  IF ~length.ok
  THEN BinariesFail(InvalidRequestError(<<ident, " Length header invalid">>),
                    r.pos, adds)
  ELSE
  WithValue(FileCacheAdd(stream, r.pos, length), LAMBDA add :
  LET adds2 == Append(adds, [key |-> ident, length |-> length.n,
                             wide |-> length.wide])
  IN
  IF add.panicked
  THEN [bs |-> <<>>, err |-> NoError, pos |-> add.pos, panicked |-> TRUE,
        adds |-> adds2]
  ELSE IF add.short
  THEN BinariesFail(InvalidRequestError(<<ident, " data incomplete">>),
                    add.pos, adds2)
  ELSE
  WithValue(ReadTerminators(stream, add.pos.off, 2), LAMBDA t :
  LET binary == [nil |-> FALSE, Ident |-> ident, Length |-> length.n,
                 Data |-> <<>>]
      bs2 == [id \in (DOMAIN bs) \cup {ident} |->
                IF id = ident THEN binary ELSE bs[id]]
      pos2 == [add.pos EXCEPT !.off = t.off]
  IN
  IF t.res = "eof" THEN BinariesFail(OtherError("EOF"), pos2, adds2)
  ELSE IF t.res = "bad"
  THEN BinariesFail(
         InvalidRequestError(<<ident, " data not properly terminated">>),
         pos2, adds2)
  ELSE WithValue([pos |-> pos2, bs |-> bs2, adds |-> adds2], LAMBDA next :
         ReadSections(stream, next.pos, n - 1, next.bs, next.adds))))))

ReadBinaries(stream, pos, headers) ==
  ReadSections(stream, pos, ResourceCount(headers), <<>>, <<>>)

\* ------------------------------------------------------------ handlers

\* What a Handler's Parse returns: the request, the error, the reader's
\* position afterwards, whether the call panicked, the handler whose Parse
\* ran ("none" when the multiplexer returned before dispatching) and the
\* calls made to the storage capability.
ParseResult(req, err, pos, h) ==
  [req |-> req, err |-> err, pos |-> pos, panicked |-> FALSE, handler |-> h,
   adds |-> <<>>]

ParsePanic(pos, h) ==
  [req |-> NilRequest, err |-> NoError, pos |-> pos, panicked |-> TRUE,
   handler |-> h, adds |-> <<>>]

\* The loop of RegisterHandler.Parse that reads count more header blocks.
RECURSIVE ReadBlocks(_, _, _)
ReadBlocks(stream, pos, count) ==
  IF count = 0 THEN [hs |-> <<>>, err |-> NoError, pos |-> pos]
  ELSE WithValue(ReadMIMEHeader(stream, pos), LAMBDA r :
       IF r.err.dyn # "nil" THEN [hs |-> <<>>, err |-> r.err, pos |-> r.pos]
       ELSE WithValue(ReadBlocks(stream, r.pos, count - 1), LAMBDA rest :
            [hs |-> <<r.h>> \o rest.hs, err |-> rest.err, pos |-> rest.pos]))

\* RegisterHandler.Parse.  make([]Header, count+1) panics for count < -1 and
\* req.Headers[0] is out of range for count = -1.
RegisterParse(stream, pos, req) ==
  LET me == "RegisterHandler" IN
  WithValue(ReadMIMEHeader(stream, pos), LAMBDA r :
  IF r.err.dyn # "nil" THEN ParseResult(NilRequest, r.err, r.pos, me)
  ELSE
  LET countHeader == HeaderGet(r.h, sKeys.NotificationsCount) IN
  IF ~countHeader.ok
  THEN ParseResult(NilRequest, MissingHeaderError(<<"Notifications-Count">>),
                   r.pos, me)
  ELSE
  LET count == strconvAtoi(countHeader.v) IN
  IF ~count.ok
  THEN ParseResult(NilRequest,
                   InvalidRequestError(<<"nofication count format invalid">>),
                   r.pos, me)
  ELSE IF count.n < 0 THEN ParsePanic(r.pos, me)
  ELSE
  WithValue(ReadBlocks(stream, r.pos, count.n), LAMBDA more :
  IF more.err.dyn # "nil" THEN ParseResult(NilRequest, more.err, more.pos, me)
  ELSE
  LET headers == <<r.h>> \o more.hs IN
  WithValue(ReadBinaries(stream, more.pos, headers), LAMBDA b :
  IF b.panicked THEN [ParsePanic(b.pos, me) EXCEPT !.adds = b.adds]
  ELSE IF b.err.dyn # "nil"
  THEN [ParseResult(NilRequest, b.err, b.pos, me) EXCEPT !.adds = b.adds]
  ELSE [ParseResult([req EXCEPT !.Headers = headers, !.Binaries = b.bs],
                    NoError, b.pos, me) EXCEPT !.adds = b.adds])))

\* NotifyHandler.Parse
NotifyParse(stream, pos, req) ==
  LET me == "NotifyHandler" IN
  WithValue(ReadMIMEHeader(stream, pos), LAMBDA r :
  LET headers == <<r.h>> IN
  IF r.err.dyn # "nil" THEN ParseResult(NilRequest, r.err, r.pos, me)
  ELSE
  WithValue(ReadBinaries(stream, r.pos, headers), LAMBDA b :
  IF b.panicked THEN [ParsePanic(b.pos, me) EXCEPT !.adds = b.adds]
  ELSE IF b.err.dyn # "nil"
  THEN [ParseResult(NilRequest, b.err, b.pos, me) EXCEPT !.adds = b.adds]
  ELSE [ParseResult([req EXCEPT !.Headers = headers, !.Binaries = b.bs],
                    NoError, b.pos, me) EXCEPT !.adds = b.adds]))

\* An unhandled handler that reads the request's header block before failing.
UnhandledParse_ReadsBlock(t, stream, pos, req) ==
  ParseResult(req, UnknownRequestTypeError(t), ReadMIMEHeader(stream, pos).pos,
              "UnhandledHandler")

\* UnhandledHandler.Parse
UnhandledParse(t, stream, pos, req) ==
  ParseResult(req, UnknownRequestTypeError(t), pos, "UnhandledHandler")

\* strconv.ParseBool; the error is dropped by the callers.
strconvParseBool(s) ==
  s \in {<<"1">>, <<"t">>, <<"T">>, <<"T", "R", "U", "E">>,
         <<"t", "r", "u", "e">>, <<"T", "r", "u", "e">>}

\* What a Handler's Respond returns, with the registry afterwards and the
\* notifications sent to the notification channel.
RespondResult(resp, err, apps, sent, h) ==
  [resp |-> resp, err |-> err, panicked |-> FALSE, apps |-> apps,
   sent |-> sent, handler |-> h]

RespondPanic(apps, h) ==
  [resp |-> NilResponse, err |-> NoError, panicked |-> TRUE, apps |-> apps,
   sent |-> <<>>, handler |-> h]

\* The notification loop of buildApplication, from Go index i.
RECURSIVE buildNotes(_, _, _, _)
buildNotes(headers, i, app, notes) ==
  IF i >= app.Count + 1
  THEN [app |-> [app EXCEPT !.Notifications = notes], err |-> NoError,
        panicked |-> FALSE]
  ELSE IF i + 1 > Len(headers)
  THEN [app |-> app, err |-> NoError, panicked |-> TRUE]
  ELSE
  LET noteHeader == headers[i + 1]
      name == HeaderGet(noteHeader, sKeys.NotificationName)
  IN
  IF ~name.ok \/ name.v = <<>>
  THEN [app |-> app, err |-> MissingHeaderError(<<"Notification-Name">>),
        panicked |-> FALSE]
  ELSE IF name.v \in DOMAIN notes
  THEN [app |-> app,
        err |-> InvalidRequestError(<<"Duplicate notification registered: ",
                                      name.v>>),
        panicked |-> FALSE]
  ELSE
  LET display == HeaderGet(noteHeader, sKeys.NotificationDisplay)
      enabled == HeaderGet(noteHeader, sKeys.NotificationEnabled)
      icon == HeaderGet(noteHeader, sKeys.NotificationIcon)
      note == [Name |-> name.v,
               Display |-> IF ~display.ok \/ display.v = <<>> THEN name.v
                           ELSE display.v,
               Enabled |-> strconvParseBool(enabled.v),
               Icon |-> IF icon.ok THEN icon.v ELSE app.Icon]
  IN buildNotes(headers, i + 1, app,
                [n \in (DOMAIN notes) \cup {name.v} |->
                   IF n = name.v THEN note ELSE notes[n]])

\* buildApplication
buildApplication(headers) ==
  IF Len(headers) = 0 THEN [app |-> <<>>, err |-> NoError, panicked |-> TRUE]
  ELSE
  LET appHeader == headers[1]
      name == HeaderGet(appHeader, sKeys.ApplicationName)
      count == HeaderGet(appHeader, sKeys.NotificationsCount)
      n == strconvAtoi(count.v)
      fail(err) == [app |-> <<>>, err |-> err, panicked |-> FALSE]
  IN
  IF ~name.ok \/ name.v = <<>>
  THEN fail(MissingHeaderError(<<"Application-Name">>))
  ELSE IF ~count.ok \/ count.v = <<>>
  THEN fail(MissingHeaderError(<<"Notifications-Count">>))
  ELSE IF ~n.ok \/ n.n < 0
  THEN fail(InvalidRequestError(
              <<"notification count must be a non-negative integer">>))
  ELSE buildNotes(headers, 1,
                  [Name |-> name.v,
                   Icon |-> HeaderGet(appHeader, sKeys.ApplicationIcon).v,
                   Count |-> n.n, Notifications |-> <<>>],
                  <<>>)

\* An Add that keeps an application already registered under the name.
ApplicationsAdd_KeepFirst(apps, app) ==
  IF app.Name \in DOMAIN apps THEN apps
  ELSE [a \in (DOMAIN apps) \cup {app.Name} |->
          IF a = app.Name THEN app ELSE apps[a]]

\* Applications.Add
ApplicationsAdd(apps, app) ==
  [a \in (DOMAIN apps) \cup {app.Name} |->
     IF a = app.Name THEN app ELSE apps[a]]

\* RegisterHandler.Respond
RegisterRespond(req, apps) ==
  IF req.Major # 1 /\ req.Minor # 0
  THEN RespondResult(NilResponse,
                     UnknownProtocolVersionError(req.Major, req.Minor),
                     apps, <<>>, "RegisterHandler")
  ELSE LET b == buildApplication(req.Headers) IN
       IF b.panicked THEN RespondPanic(apps, "RegisterHandler")
       ELSE IF b.err.dyn # "nil"
       THEN RespondResult(NilResponse, b.err, apps, <<>>, "RegisterHandler")
       ELSE RespondResult(
              [NewResponse(1, 0) EXCEPT
                 !.Headers[1] = HeaderSet(@, sKeys.ResponseAction, sREGISTER)],
              NoError, ApplicationsAdd(apps, b.app), <<>>, "RegisterHandler")

\* buildNotification
buildNotification(apps, header) ==
  LET appName == HeaderGet(header, sKeys.ApplicationName)
      name == HeaderGet(header, sKeys.NotificationName)
      title == HeaderGet(header, sKeys.NotificationTitle)
      fail(err) == [note |-> <<>>, err |-> err]
  IN
  IF ~appName.ok THEN fail(MissingHeaderError(<<"Application-Name">>))
  ELSE IF appName.v \notin DOMAIN apps
  THEN fail(UnknownApplicationError(appName.v))
  ELSE IF ~name.ok THEN fail(MissingHeaderError(<<"Notification-Name">>))
  ELSE IF ~title.ok THEN fail(MissingHeaderError(<<"Notification-Title">>))
  ELSE IF name.v \notin DOMAIN apps[appName.v].Notifications
  THEN fail(UnknownNotificationError(appName.v, name.v))
  ELSE LET defaults == apps[appName.v].Notifications[name.v]
           icon == HeaderGet(header, sKeys.NotificationIcon)
       IN [note |-> [App |-> appName.v, Name |-> name.v, Title |-> title.v,
                     Enabled |-> defaults.Enabled,
                     Icon |-> IF icon.ok THEN icon.v ELSE defaults.Icon],
           err |-> NoError]

\* NotifyHandler.Respond
NotifyRespond(req, apps) ==
  IF req.Major # 1 /\ req.Minor # 0
  THEN RespondResult(NilResponse,
                     UnknownProtocolVersionError(req.Major, req.Minor),
                     apps, <<>>, "NotifyHandler")
  ELSE IF Len(req.Headers) = 0 THEN RespondPanic(apps, "NotifyHandler")
  ELSE LET b == buildNotification(apps, req.Headers[1]) IN
       IF b.err.dyn # "nil"
       THEN RespondResult(NilResponse, b.err, apps, <<>>, "NotifyHandler")
       ELSE RespondResult(
              [NewResponse(1, 0) EXCEPT
                 !.Headers[1] = HeaderSet(@, sKeys.ResponseAction, sNOTIFY)],
              NoError, apps, <<b.note>>, "NotifyHandler")

\* UnhandledHandler.Respond
UnhandledRespond(apps) ==
  RespondResult(NilResponse, NoError, apps, <<>>, "UnhandledHandler")

\* ------------------------------------------------------------ ServeMux

\* Handler values stored in (or returned by) a dispatch table.
RegisterHandler == [kind |-> "RegisterHandler"]

NotifyHandler == [kind |-> "NotifyHandler"]

UnhandledHandler(t) == [kind |-> "UnhandledHandler", t |-> t]

\* NewServeMux: an empty table.
NewServeMux == <<>>

\* The table after main has registered its two handlers.
MainServeMux ==
  [t \in {sREGISTER, sNOTIFY} |->
     IF t = sREGISTER THEN RegisterHandler ELSE NotifyHandler]

\* ServeMux.handler
muxHandler(table, t) ==
  IF t \in DOMAIN table THEN table[t] ELSE UnhandledHandler(t)

\* A Register that replaces an existing registration instead of panicking.
RegisterBody_Overwrite(table, t, h) ==
  [table |-> [x \in (DOMAIN table) \cup {t} |->
                IF x = t THEN h ELSE table[x]],
   panicked |-> FALSE]

\* The body of ServeMux.Register, between Lock and the deferred Unlock:
\* the table afterwards and whether the call panicked.
RegisterBody(table, t, h) ==
  IF t \in DOMAIN table THEN [table |-> table, panicked |-> TRUE]
  ELSE [table |-> [x \in (DOMAIN table) \cup {t} |->
                     IF x = t THEN h ELSE table[x]],
        panicked |-> FALSE]

\* The lock state a Register call leaves behind: Unlock is deferred, so it
\* runs on the panic path too.
RegisterUnlock(panicked) == FALSE

\* Dispatch of Parse on a handler value.
HandlerParse(h, stream, pos, req) ==
  CASE h.kind = "RegisterHandler" -> RegisterParse(stream, pos, req)
    [] h.kind = "NotifyHandler" -> NotifyParse(stream, pos, req)
    [] h.kind = "UnhandledHandler" -> UnhandledParse(h.t, stream, pos, req)

\* Dispatch of Respond on a handler value.
HandlerRespond(h, req, apps) ==
  CASE h.kind = "RegisterHandler" -> RegisterRespond(req, apps)
    [] h.kind = "NotifyHandler" -> NotifyRespond(req, apps)
    [] h.kind = "UnhandledHandler" -> UnhandledRespond(apps)

\* A security check that looks only at the start of the third token.
SecurityAccepted_Prefix(sec) == HasPrefix(sec, sNONE)

\* The security check of ServeMux.Parse on the third token.
SecurityAccepted(sec) == sec = sNONE

\* ServeMux.Parse
MuxParse(table, stream, req0) ==
  LET req == IF req0.nil THEN NewRequest ELSE req0
      line == ReadLine(stream, StartPos)
  IN
  IF line.err.dyn # "nil" THEN ParseResult(req, line.err, line.pos, "none")
  ELSE
  LET f == SplitN3(line.s) IN
  IF Len(f) < 3
  THEN ParseResult(req, UnknownProtocolError(line.s), line.pos, "none")
  ELSE
  LET v == parseGntpVersion(f[1])
      req1 == [req EXCEPT !.Major = v.major, !.Minor = v.minor]
  IN
  IF ~v.ok
  THEN ParseResult(req1, UnknownProtocolError(line.s), line.pos, "none")
  ELSE
  LET req2 == [req1 EXCEPT !.Type = f[2]] IN
  IF ~SecurityAccepted(f[3])
  THEN ParseResult(req2, InvalidRequestError(<<"unsupported encryption">>),
                   line.pos, "none")
  ELSE HandlerParse(muxHandler(table, req2.Type), stream, line.pos, req2)

\* ServeMux.Respond
MuxRespond(table, req, apps) ==
  HandlerRespond(muxHandler(table, req.Type), req, apps)

\* ------------------------------------------------------------ state

VARIABLES
  \* the dispatch table (DefaultServeMux.m) and its lock
  mux,          \* request type -> handler value
  muLocked,     \* TRUE while mux.mu is write-locked
  muReaders,    \* the tasks that hold mux.mu read-locked
  regPc,        \* "idle", or "locked" inside a Register call
  regLog,       \* the Register calls made, in order, with their outcome
  \* one Parse / Respond round trip made directly on the dispatch table
  stream,       \* the input of the round trip
  parseRes,     \* its Parse result
  respondRes,   \* its Respond result
  \* the server
  srvHandler,   \* srv.handler: "nil" (DefaultServeMux) or "custom"
  listener,     \* srv.listener: "nil", "open" or "closed"
  shutdown,     \* srv.shutdown
  startPc,      \* Start: "idle", "listen", "accept", "wait", "returned"
  startErr,     \* what Start returned: "none" yet, "nil", or the error
  exitPc,       \* Exit: "idle", "close" (flag set), "done"
  exitAt,       \* where Start was when Exit was invoked
  tempDelay,    \* the accept loop's tempDelay, in milliseconds
  nTempErrors,  \* temporary Accept errors met so far
  nConsec,      \* those met since the last connection Accept returned
  wg,           \* the counter of srv.wg
  conns,        \* connection id -> the state of its task
  nAccepted,    \* connections accepted so far
  apps,         \* the application registry (Applications.m)
  \* one Header built by Add and Set calls, then read or written
  hdr,          \* the Header
  hdrLog,       \* the Add and Set calls made on it, in order
  hdrCall,      \* the Get or Write call made on it and what it gave
  \* one ReadBinaries call on the reader of the variable stream
  binHeaders,   \* its headers argument
  binRes,       \* its result
  \* one Response.write of binaries, read back by ReadBinaries
  binWire,      \* the binaries, the bytes written and what was read
  \* requests handled concurrently on the application registry
  reqs,         \* task id -> its request, its position and its result
  hist          \* the registrations stored, in the order of their Add

muxVars == <<mux, muLocked, muReaders, regPc, regLog>>

libVars == <<hdr, hdrLog, hdrCall, binHeaders, binRes>>

extVars == <<binWire, reqs, hist>>

callVars == <<stream, parseRes, respondRes, libVars, extVars>>

srvVars == <<srvHandler, listener, shutdown, startPc, startErr, exitPc, exitAt,
             tempDelay, nTempErrors, nConsec, wg, conns, nAccepted>>

vars == <<mux, muLocked, muReaders, regPc, regLog, stream, parseRes,
          respondRes, srvHandler, listener, shutdown, startPc, startErr,
          exitPc, exitAt, tempDelay, nTempErrors, nConsec, wg, conns,
          nAccepted, apps, hdr, hdrLog, hdrCall, binHeaders, binRes, binWire,
          reqs, hist>>

ConnIds == 1..MaxConns

\* A connection slot.  pc is the position of its serve task: "none" (not
\* accepted), "spawned" (go c.serve() issued, nothing run), "parse",
\* "respond", "write", "unwind" (the body is over, by return or by panic),
\* "close" (wg.Done has run) and "finished".  buf is what is buffered in
\* c.writer or already handed to the socket, sock what the peer has
\* received when the socket is closed.  calls lists the calls serve has
\* made to the handler and to resp.write, closes counts the calls of
\* rwc.Close, writerNil and rwcNil tell whether c.writer and c.rwc are nil.
NoConn ==
  [pc |-> "none", stream |-> EmptyStream, parse |-> [called |-> FALSE],
   respond |-> [called |-> FALSE], resp |-> NilResponse, buf |-> <<>>,
   sock |-> <<>>, rwc |-> "none", panicking |-> FALSE, panicAt |-> "none",
   recovered |-> FALSE, acceptedAfterExit |-> FALSE, calls |-> <<>>,
   writerNil |-> FALSE, rwcNil |-> FALSE, closes |-> 0]

NotCalled == [called |-> FALSE]

MuxInit ==
  /\ muLocked = FALSE
  /\ muReaders = {}
  /\ regPc = "idle"
  /\ regLog = <<>>

CallInit ==
  /\ parseRes = NotCalled
  /\ respondRes = NotCalled

\* NewHeader(), nothing called on it yet
HdrInit ==
  /\ hdr = NewHeader
  /\ hdrLog = <<>>
  /\ hdrCall = [op |-> "none"]

\* ReadBinaries not called
BinIdle ==
  /\ binHeaders = <<>>
  /\ binRes = NotCalled

\* no Response written, no request on the registry
ExtIdle ==
  /\ binWire = NotCalled
  /\ reqs = <<>>
  /\ hist = <<>>

SrvInit ==
  /\ listener = "nil"
  /\ shutdown = FALSE
  /\ startPc = "idle"
  /\ startErr = "none"
  /\ exitPc = "idle"
  /\ exitAt = "none"
  /\ tempDelay = 0
  /\ nTempErrors = 0
  /\ nConsec = 0
  /\ wg = 0
  /\ conns = [c \in ConnIds |-> NoConn]
  /\ nAccepted = 0
  /\ apps = <<>>

\* ------------------------------------------------------------ inputs

SeqsUpTo(S, n) == UNION {[1..k -> S] : k \in 0..n}

Join3(a, b, c) == a \o <<" ">> \o b \o <<" ">> \o c

\* Header values
vFoo == <<"F", "o", "o">>
vBaz == <<"B", "a", "z">>
vBar == <<"B", "a", "r">>
vTitle == <<"H", "i">>
vTrue == <<"T", "r", "u", "e">>

Hdr1(k1, v1) == [k \in {k1} |-> <<v1>>]

Hdr2(k1, v1, k2, v2) == [k \in {k1, k2} |-> IF k = k1 THEN <<v1>> ELSE <<v2>>]

Hdr3(k1, v1, k2, v2, k3, v3) ==
  [k \in {k1, k2, k3} |->
     IF k = k1 THEN <<v1>> ELSE IF k = k2 THEN <<v2>> ELSE <<v3>>]

AppBlock(name, count) ==
  Hdr2(sKeys.ApplicationName, name, sKeys.NotificationsCount, count)

NoteBlock(name) ==
  Hdr2(sKeys.NotificationName, name, sKeys.NotificationEnabled, vTrue)

NotifyBlock(app, name) ==
  Hdr3(sKeys.ApplicationName, app, sKeys.NotificationName, name,
       sKeys.NotificationTitle, vTitle)

sVersion10 == sGNTP \o <<"1", ".", "0">>

\* Version tokens: a protocol prefix followed by every string over
\* VersionAlphabet up to MaxBody characters, and numerals around the limit
\* of atoi.
VersionAlphabet == {"1", ".", "x"}

VersionPrefixes == {sGNTP, <<"G", "N", "T", "P">>, <<"g", "n", "t", "p", "/">>}

LongBodies ==
  {<<"1", "0", "0", "0", "0", "0", "0", ".", "0">>,
   <<"1", "0", "0", "0", "0", "0", "1", ".", "0">>,
   <<"0", ".", "1", "0", "0", "0", "0", "0", "1">>,
   <<"0", "0", "0", "0", "0", "0", "0", "7", ".", "1">>,
   <<"9", "9", "9", "9", "9", "9", "9", ".", "1", "0", "0", "0", "0", "0", "0">>,
   <<"1", ".", "0">>, <<"1", ".", "0", "9">>, <<"-", "1", ".", "0">>}

VersionTokens ==
  {p \o b : p \in VersionPrefixes,
            b \in SeqsUpTo(VersionAlphabet, MaxBody) \cup LongBodies}

\* Versions combined with every type and security token.
CoreVersions ==
  {sVersion10, sGNTP \o <<"2", ".", "1">>, sGNTP \o <<"1", ".", "x">>}

TypeTokens == {sREGISTER, sNOTIFY, sFOO, <<>>}

SecurityTokens ==
  {sNONE, sNONE \o <<" ", "x">>, <<"n", "o", "n", "e">>, sNONE \o <<"x">>, <<>>}

\* Directive lines: every version token in an otherwise well-formed line,
\* the core versions with every type and security token, and lines of two
\* tokens, one token and no token.
DirectiveLines ==
  {Join3(v, sNOTIFY, sNONE) : v \in VersionTokens}
    \cup {Join3(v, t, sec) : v \in CoreVersions, t \in TypeTokens,
                            sec \in SecurityTokens}
    \cup {v \o <<" ">> \o t : v \in CoreVersions, t \in TypeTokens}
    \cup CoreVersions
    \cup {<<>>}

\* What may follow the directive line in a round trip on the table.
MuxBodies ==
  {<<>>, <<AppBlock(vFoo, <<"0">>)>>, <<NotifyBlock(vFoo, vBar)>>}

MuxStreams ==
  {Stream(l, b, <<>>) : l \in DirectiveLines, b \in MuxBodies}
    \cup {EmptyStream}

\* ------------------------------------------------------------ SpecMux
\* The dispatch table on its own: Register calls, and one Parse / Respond
\* round trip on an input stream drawn from MuxStreams.

RegTypes == {sREGISTER, sNOTIFY}

RegHandlers == {RegisterHandler, NotifyHandler}

\* ServeMux.Register up to and including mux.mu.Lock()
RegisterLock ==
  /\ regPc \in {"idle", "waiting"}
  /\ ~muLocked
  /\ muReaders = {}
  /\ Len(regLog) < MaxRegs
  /\ muLocked' = TRUE
  /\ regPc' = "locked"
  /\ UNCHANGED <<mux, muReaders, regLog, callVars, srvVars, apps>>

\* The rest of ServeMux.Register: the duplicate check, the panic or the
\* store, and the deferred Unlock.
RegisterRun(t, h) ==
  /\ regPc = "locked"
  /\ LET r == RegisterBody(mux, t, h) IN
       /\ mux' = r.table
       /\ muLocked' = RegisterUnlock(r.panicked)
       /\ regLog' = Append(regLog, [t |-> t, h |-> h,
                                    panicked |-> r.panicked])
  /\ regPc' = "idle"
  /\ UNCHANGED <<muReaders, callVars, srvVars, apps>>

\* mux.Parse(b, nil) on the input stream; the lookup takes the read lock.
ParseCall ==
  /\ ~parseRes.called
  /\ ~muLocked
  /\ parseRes' = [called |-> TRUE, res |-> MuxParse(mux, stream, NilRequest),
                  nregs |-> Len(regLog)]
  /\ UNCHANGED <<muxVars, stream, respondRes, libVars, extVars, srvVars, apps>>

\* mux.Respond(req) on the request a successful Parse returned.
RespondCall ==
  /\ parseRes.called
  /\ ~parseRes.res.panicked
  /\ parseRes.res.err.dyn = "nil"
  /\ ~respondRes.called
  /\ ~muLocked
  /\ LET r == MuxRespond(mux, parseRes.res.req, apps) IN
       /\ respondRes' = [called |-> TRUE, res |-> r, nregs |-> Len(regLog)]
       /\ apps' = r.apps
  /\ UNCHANGED <<muxVars, stream, parseRes, libVars, extVars, srvVars>>

InitMux ==
  /\ mux = NewServeMux
  /\ MuxInit
  /\ stream \in MuxStreams
  /\ CallInit
  /\ HdrInit
  /\ BinIdle
  /\ ExtIdle
  /\ srvHandler = "nil"
  /\ SrvInit

NextMux ==
  \/ RegisterLock
  \/ \E t \in RegTypes, h \in RegHandlers : RegisterRun(t, h)
  \/ ParseCall
  \/ RespondCall

SpecMux == InitMux /\ [][NextMux]_vars

\* The lock of the dispatch table under concurrent lookups: MaxReaders
\* tasks call ServeMux.handler while Register calls are made.

LookupTasks == 1..MaxReaders

\* A lookup that takes the lock for itself alone.
RLockFree_Exclusive(locked, waiting, readers) ==
  ~locked /\ ~waiting /\ readers = {}

\* sync.RWMutex.RLock returns at once unless a writer holds the lock or
\* waits for it; the readers that hold it do not matter.
RLockFree(locked, waiting, readers) == ~locked /\ ~waiting

\* ServeMux.handler up to and including mux.mu.RLock()
HandlerRLock(t) ==
  /\ t \notin muReaders
  /\ RLockFree(muLocked, regPc = "waiting", muReaders)
  /\ muReaders' = muReaders \cup {t}
  /\ UNCHANGED <<mux, muLocked, regPc, regLog, callVars, srvVars, apps>>

\* The rest of ServeMux.handler: the table is read and the deferred
\* RUnlock runs.
HandlerRUnlock(t) ==
  /\ t \in muReaders
  /\ muReaders' = muReaders \ {t}
  /\ UNCHANGED <<mux, muLocked, regPc, regLog, callVars, srvVars, apps>>

\* ServeMux.Register finds mux.mu held by readers and blocks in Lock().
RegisterWait ==
  /\ regPc = "idle"
  /\ muReaders # {}
  /\ Len(regLog) < MaxRegs
  /\ regPc' = "waiting"
  /\ UNCHANGED <<mux, muLocked, muReaders, regLog, callVars, srvVars, apps>>

InitLookup ==
  /\ mux = NewServeMux
  /\ MuxInit
  /\ stream = EmptyStream
  /\ CallInit
  /\ HdrInit
  /\ BinIdle
  /\ ExtIdle
  /\ srvHandler = "nil"
  /\ SrvInit

NextLookup ==
  \/ RegisterWait
  \/ RegisterLock
  \/ \E t \in RegTypes, h \in RegHandlers : RegisterRun(t, h)
  \/ \E t \in LookupTasks : HandlerRLock(t)
  \/ \E t \in LookupTasks : HandlerRUnlock(t)

SpecLookup == InitLookup /\ [][NextLookup]_vars

\* ------------------------------------------------------------ server
\* Start, Exit and the connection tasks, with the handlers main registers
\* (srv.handler nil) or with a Handler passed to New.

\* Requests a peer may send on a connection.
ServerStreams ==
  {Stream(Join3(sVersion10, sREGISTER, sNONE),
          <<AppBlock(vFoo, <<"1">>), NoteBlock(vBar)>>, <<>>),
   Stream(Join3(sVersion10, sREGISTER, sNONE),
          <<AppBlock(vFoo, <<"-", "1">>)>>, <<>>),
   Stream(Join3(sVersion10, sREGISTER, sNONE),
          <<Hdr1(sKeys.ApplicationName, vFoo)>>, <<>>),
   Stream(Join3(sVersion10, sNOTIFY, sNONE), <<NotifyBlock(vFoo, vBar)>>,
          <<>>),
   Stream(Join3(sVersion10, sNOTIFY, sNONE), <<NotifyBlock(vBaz, vBar)>>,
          <<>>),
   Stream(Join3(sVersion10, sFOO, sNONE), <<>>, <<>>),
   EmptyStream}

\* A *Binary of a response: nil, or one with a payload.
NilBinary == [nil |-> TRUE]

SomeBinary == [nil |-> FALSE, Length |-> 1, Data |-> <<"x">>]

\* What the Parse of a Handler passed to New may do.
CustomParseOutcomes ==
  {ParseResult(NewRequest, NoError, StartPos, "custom"),
   ParseResult(NilRequest, UnknownApplicationError(vBaz), StartPos, "custom"),
   ParseResult(NilRequest, GntpErrorPointer(400, <<"custom">>), StartPos,
               "custom"),
   ParseResult(NilRequest, OtherError("custom"), StartPos, "custom"),
   ParsePanic(StartPos, "custom")}

\* What the Respond of a Handler passed to New may do.
CustomRespondOutcomes(registry) ==
  {RespondResult(NewResponse(1, 0), NoError, registry, <<>>, "custom"),
   RespondResult(NilResponse, NoError, registry, <<>>, "custom"),
   RespondResult([NewResponse(1, 0) EXCEPT
                    !.Binaries = [id \in {"a", "b"} |->
                                    IF id = "a" THEN SomeBinary
                                    ELSE NilBinary]],
                 NoError, registry, <<>>, "custom"),
   RespondResult(NilResponse, UnknownApplicationError(vBaz), registry, <<>>,
                 "custom"),
   RespondResult(NilResponse, GntpErrorPointer(401, <<"custom">>), registry,
                 <<>>, "custom"),
   RespondResult(NilResponse, OtherError("custom"), registry, <<>>, "custom"),
   RespondPanic(registry, "custom")}

\* The orders in which a range over a map with these keys may visit them.
RangeOrders(keys) ==
  {o \in [1..Cardinality(keys) -> keys] :
     \A i, j \in DOMAIN o : i # j => o[i] # o[j]}

\* A Parse branch that asserts the pointer type, as the Respond branch does.
ParseErrorResponse_PointerAssert(err) ==
  IF err.dyn = "*GntpError" THEN GntpErrorResponse(err)
  ELSE GntpErrorResponse(InternalServerError)

\* conn.serve: the response that stands for an error returned by Parse.
ParseErrorResponse(err) ==
  IF err.dyn = "GntpError" THEN GntpErrorResponse(err)
  ELSE GntpErrorResponse(InternalServerError)

\* conn.serve: the response that stands for an error returned by Respond.
RespondErrorResponse(err) ==
  IF err.dyn = "*GntpError" THEN GntpErrorResponse(err)
  ELSE GntpErrorResponse(InternalServerError)

\* A recovery function that answers the peer with Internal Server Error.
RecoverOutput_Sends500 ==
  ResponseWrite(GntpErrorResponse(InternalServerError), <<>>).out

\* What the deferred recovery function of conn.serve writes to the peer.
RecoverOutput == <<>>

\* A backoff that doubles without a cap.
NextTempDelay_NoCap(d) == IF d = 0 THEN 5 ELSE d * 2

\* The accept loop's backoff after a temporary error, in milliseconds.
NextTempDelay(d) ==
  LET doubled == IF d = 0 THEN 5 ELSE d * 2 IN
  IF doubled > 1000 THEN 1000 ELSE doubled

\* Start is called.
StartInvoke ==
  /\ startPc = "idle"
  /\ startPc' = "listen"
  /\ UNCHANGED <<muxVars, callVars, srvHandler, listener, shutdown, startErr,
                 exitPc, exitAt, tempDelay, nTempErrors, nConsec, wg, conns, nAccepted,
                 apps>>

\* srv.listener, err = net.Listen(...); return err on failure.
StartListen(ok) ==
  /\ startPc = "listen"
  /\ IF ok
     THEN /\ listener' = "open"
          /\ startPc' = "accept"
          /\ startErr' = startErr
     ELSE /\ listener' = "nil"
          /\ startPc' = "returned"
          /\ startErr' = "listenErr"
  /\ UNCHANGED <<muxVars, callVars, srvHandler, shutdown, exitPc, exitAt,
                 tempDelay, nTempErrors, nConsec, wg, conns, nAccepted, apps>>

\* Accept returns a connection: tempDelay = 0, newConn, go c.serve().
AcceptConn ==
  /\ startPc = "accept"
  /\ listener = "open"
  /\ nAccepted < MaxConns
  /\ tempDelay' = 0
  /\ nConsec' = 0
  /\ nAccepted' = nAccepted + 1
  /\ conns' = [conns EXCEPT ![nAccepted + 1] =
                 [NoConn EXCEPT !.pc = "spawned", !.rwc = "open",
                                !.acceptedAfterExit = (exitPc = "done")]]
  /\ UNCHANGED <<muxVars, callVars, srvHandler, listener, shutdown, startPc,
                 startErr, exitPc, exitAt, nTempErrors, wg, apps>>

\* Accept returns a temporary error: back off, sleep, continue; at most
\* limit such errors in a run.
AcceptTemporaryErrorWithin(limit) ==
  /\ startPc = "accept"
  /\ listener = "open"
  /\ nTempErrors < limit
  /\ nTempErrors' = nTempErrors + 1
  /\ nConsec' = nConsec + 1
  /\ tempDelay' = NextTempDelay(tempDelay)
  /\ UNCHANGED <<muxVars, callVars, srvHandler, listener, shutdown, startPc,
                 startErr, exitPc, exitAt, wg, conns, nAccepted, apps>>

AcceptTemporaryError == AcceptTemporaryErrorWithin(MaxTempErrors)

\* Accept returns a permanent error: break when shutdown is set, return the
\* error otherwise.
AcceptBreak ==
  /\ startPc = "accept"
  /\ IF shutdown
     THEN /\ startPc' = "wait"
          /\ startErr' = startErr
     ELSE /\ startPc' = "returned"
          /\ startErr' = "acceptErr"
  /\ UNCHANGED <<muxVars, callVars, srvHandler, listener, shutdown, exitPc,
                 exitAt, tempDelay, nTempErrors, nConsec, wg, conns, nAccepted, apps>>

\* Accept on a listener that Exit has closed.
AcceptOnClosed ==
  /\ listener = "closed"
  /\ AcceptBreak

\* Accept fails permanently for a reason of the operating system.
AcceptFailure ==
  /\ listener = "open"
  /\ AcceptBreak

\* srv.wg.Wait() returns; return nil.
StartWait ==
  /\ startPc = "wait"
  /\ wg = 0
  /\ startPc' = "returned"
  /\ startErr' = "nil"
  /\ UNCHANGED <<muxVars, callVars, srvHandler, listener, shutdown, exitPc,
                 exitAt, tempDelay, nTempErrors, nConsec, wg, conns, nAccepted, apps>>

\* Exit is called: srv.shutdown = true.
ExitInvoke ==
  /\ exitPc = "idle"
  /\ shutdown' = TRUE
  /\ exitPc' = "close"
  /\ exitAt' = startPc
  /\ UNCHANGED <<muxVars, callVars, srvHandler, listener, startPc, startErr,
                 tempDelay, nTempErrors, nConsec, wg, conns, nAccepted, apps>>

\* if srv.listener != nil { srv.listener.Close() }
ExitClose ==
  /\ exitPc = "close"
  /\ listener' = IF listener # "nil" THEN "closed" ELSE listener
  /\ exitPc' = "done"
  /\ UNCHANGED <<muxVars, callVars, srvHandler, shutdown, startPc, startErr,
                 exitAt, tempDelay, nTempErrors, nConsec, wg, conns, nAccepted, apps>>

\* The serve task starts running: c.server.wg.Add(1), with wg.Done, c.close
\* and the recovery function deferred.
ServeBegin(c) ==
  /\ conns[c].pc = "spawned"
  /\ wg' = wg + 1
  /\ conns' = [conns EXCEPT ![c].pc = "parse"]
  /\ UNCHANGED <<muxVars, callVars, srvHandler, listener, shutdown, startPc,
                 startErr, exitPc, exitAt, tempDelay, nTempErrors, nConsec, nAccepted,
                 apps>>

\* The task after handler.Parse returned r on the input st.
AfterParse(conn, st, r) ==
  LET called == [conn EXCEPT !.stream = st,
                             !.parse = [called |-> TRUE, res |-> r],
                             !.calls = Append(@, "Parse")]
  IN
  IF r.panicked
  THEN [called EXCEPT !.pc = "unwind", !.panicking = TRUE,
                      !.panicAt = "Parse"]
  ELSE IF r.err.dyn # "nil"
  THEN [called EXCEPT !.pc = "write", !.resp = ParseErrorResponse(r.err)]
  ELSE [called EXCEPT !.pc = "respond"]

\* handler.Parse(c.reader, req) and the branch on its error.
ServeParse(c) ==
  /\ conns[c].pc = "parse"
  /\ ~muLocked
  /\ \/ /\ srvHandler = "nil"
        /\ \E st \in ServerStreams :
             conns' = [conns EXCEPT ![c] =
                         AfterParse(@, st, MuxParse(mux, st, NilRequest))]
     \/ /\ srvHandler = "custom"
        /\ \E r \in CustomParseOutcomes :
             conns' = [conns EXCEPT ![c] = AfterParse(@, EmptyStream, r)]
  /\ UNCHANGED <<muxVars, callVars, srvHandler, listener, shutdown, startPc,
                 startErr, exitPc, exitAt, tempDelay, nTempErrors, nConsec, wg,
                 nAccepted, apps>>

\* The task after handler.Respond returned r.
AfterRespond(conn, r) ==
  LET called == [conn EXCEPT !.respond = [called |-> TRUE, res |-> r],
                             !.calls = Append(@, "Respond")]
  IN
  IF r.panicked
  THEN [called EXCEPT !.pc = "unwind", !.panicking = TRUE,
                      !.panicAt = "Respond"]
  ELSE IF r.err.dyn # "nil"
  THEN [called EXCEPT !.pc = "write", !.resp = RespondErrorResponse(r.err)]
  ELSE [called EXCEPT !.pc = "write", !.resp = r.resp]

\* handler.Respond(req) and the branch on its error.
ServeRespond(c) ==
  /\ conns[c].pc = "respond"
  /\ ~muLocked
  /\ \/ /\ srvHandler = "nil"
        /\ LET r == MuxRespond(mux, conns[c].parse.res.req, apps) IN
             /\ conns' = [conns EXCEPT ![c] = AfterRespond(@, r)]
             /\ apps' = r.apps
     \/ /\ srvHandler = "custom"
        /\ \E r \in CustomRespondOutcomes(apps) :
             /\ conns' = [conns EXCEPT ![c] = AfterRespond(@, r)]
             /\ apps' = r.apps
  /\ UNCHANGED <<muxVars, callVars, srvHandler, listener, shutdown, startPc,
                 startErr, exitPc, exitAt, tempDelay, nTempErrors, nConsec, wg,
                 nAccepted>>

\* resp.write(c.writer)
ServeWrite(c) ==
  /\ conns[c].pc = "write"
  /\ LET resp == conns[c].resp
         keys == IF resp.nil THEN {} ELSE DOMAIN resp.Binaries
     IN \E order \in RangeOrders(keys) :
          LET w == ResponseWrite(resp, order) IN
          conns' = [conns EXCEPT ![c].buf = w.out,
                                 ![c].calls = Append(@, "write"),
                                 ![c].panicking = w.panicked,
                                 ![c].panicAt = IF w.panicked THEN "write"
                                                ELSE "none",
                                 ![c].pc = "unwind"]
  /\ UNCHANGED <<muxVars, callVars, srvHandler, listener, shutdown, startPc,
                 startErr, exitPc, exitAt, tempDelay, nTempErrors, nConsec, wg,
                 nAccepted, apps>>

\* The first deferred call: c.server.wg.Done().
ServeDone(c) ==
  /\ conns[c].pc = "unwind"
  /\ wg' = wg - 1
  /\ conns' = [conns EXCEPT ![c].pc = "close"]
  /\ UNCHANGED <<muxVars, callVars, srvHandler, listener, shutdown, startPc,
                 startErr, exitPc, exitAt, tempDelay, nTempErrors, nConsec, nAccepted,
                 apps>>

\* A close that leaves c.rwc set after closing it.
ConnClose_KeepsRwc(conn) ==
  LET flushed == IF conn.writerNil THEN conn
                 ELSE [conn EXCEPT !.sock = conn.buf, !.writerNil = TRUE]
  IN IF flushed.rwcNil THEN flushed
     ELSE [flushed EXCEPT !.rwc = "closed", !.closes = @ + 1]

\* conn.close: flush and drop c.writer, close and drop c.rwc.
ConnClose(conn) ==
  LET flushed == IF conn.writerNil THEN conn
                 ELSE [conn EXCEPT !.sock = conn.buf, !.writerNil = TRUE]
  IN IF flushed.rwcNil THEN flushed
     ELSE [flushed EXCEPT !.rwc = "closed", !.closes = @ + 1,
                          !.rwcNil = TRUE]

\* The deferred recovery function of conn.serve: nothing without a panic;
\* with one, log it and close c.rwc if it is still set.
ConnRecover(conn) ==
  IF ~conn.panicking THEN conn
  ELSE LET logged == [conn EXCEPT !.sock = conn.sock \o RecoverOutput,
                                  !.recovered = TRUE]
       IN IF logged.rwcNil THEN logged
          ELSE [logged EXCEPT !.rwc = "closed", !.closes = @ + 1]

\* The remaining deferred calls: c.close() flushes c.writer and closes the
\* socket, then the recovery function stops a panic and logs it.
ServeClose(c) ==
  /\ conns[c].pc = "close"
  /\ conns' = [conns EXCEPT
                 ![c] = [ConnRecover(ConnClose(@)) EXCEPT !.pc = "finished"]]
  /\ UNCHANGED <<muxVars, callVars, srvHandler, listener, shutdown, startPc,
                 startErr, exitPc, exitAt, tempDelay, nTempErrors, nConsec, wg,
                 nAccepted, apps>>

Init ==
  /\ mux = MainServeMux
  /\ MuxInit
  /\ stream = EmptyStream
  /\ CallInit
  /\ HdrInit
  /\ BinIdle
  /\ ExtIdle
  /\ srvHandler \in {"nil", "custom"}
  /\ SrvInit

Next ==
  \/ StartInvoke
  \/ \E ok \in BOOLEAN : StartListen(ok)
  \/ AcceptConn
  \/ AcceptTemporaryError
  \/ AcceptOnClosed
  \/ AcceptFailure
  \/ StartWait
  \/ ExitInvoke
  \/ ExitClose
  \/ \E c \in ConnIds : ServeBegin(c)
  \/ \E c \in ConnIds : ServeParse(c)
  \/ \E c \in ConnIds : ServeRespond(c)
  \/ \E c \in ConnIds : ServeWrite(c)
  \/ \E c \in ConnIds : ServeDone(c)
  \/ \E c \in ConnIds : ServeClose(c)

Spec == Init /\ [][Next]_vars

\* The steps Start takes by itself once called: Listen returns, Accept on a
\* closed listener returns, Wait returns when the counter is zero.
StartStep == (\E ok \in BOOLEAN : StartListen(ok)) \/ AcceptOnClosed \/ StartWait

\* The steps of one serve task.
ServeStep(c) ==
  ServeBegin(c) \/ ServeParse(c) \/ ServeRespond(c) \/ ServeWrite(c)
    \/ ServeDone(c) \/ ServeClose(c)

\* A goroutine that can run is eventually run; a peer connecting and an
\* Accept failing are left to the environment.
FairSpec ==
  /\ Spec
  /\ WF_vars(StartStep)
  /\ WF_vars(ExitClose)
  /\ \A c \in ConnIds : WF_vars(ServeStep(c))

\* The accept loop on its own, with up to MaxBackoff temporary errors: the
\* connections it accepts are handed to their tasks and not followed.
NextAccept ==
  \/ StartInvoke
  \/ \E ok \in BOOLEAN : StartListen(ok)
  \/ AcceptConn
  \/ AcceptTemporaryErrorWithin(MaxBackoff)
  \/ AcceptOnClosed
  \/ AcceptFailure
  \/ StartWait
  \/ ExitInvoke
  \/ ExitClose

SpecAccept == Init /\ [][NextAccept]_vars

\* ------------------------------------------------------------ Header
\* One Header built from NewHeader() by Add and Set calls, then read with
\* Get or written with Write and read back as a MIME header block.

MaxOps == 2

HdrKeys ==
  {<<"a", "-", "b">>, <<"A", "-", "B">>, <<"a", "b">>}

HdrValues ==
  {<<"x">>, <<"y", ":", "z">>, <<" ", "x", "LF", "y">>}

\* h.Add(key, value)
HeaderAddCall(key, value) ==
  /\ hdrCall.op = "none"
  /\ Len(hdrLog) < MaxOps
  /\ hdr' = HeaderAdd(hdr, key, value)
  /\ hdrLog' = Append(hdrLog, [op |-> "Add", key |-> key, value |-> value])
  /\ UNCHANGED <<muxVars, stream, parseRes, respondRes, hdrCall, binHeaders,
                 binRes, extVars, srvVars, apps>>

\* h.Set(key, value)
HeaderSetCall(key, value) ==
  /\ hdrCall.op = "none"
  /\ Len(hdrLog) < MaxOps
  /\ hdr' = HeaderSet(hdr, key, value)
  /\ hdrLog' = Append(hdrLog, [op |-> "Set", key |-> key, value |-> value])
  /\ UNCHANGED <<muxVars, stream, parseRes, respondRes, hdrCall, binHeaders,
                 binRes, extVars, srvVars, apps>>

\* h.Get(key)
HeaderGetCall(key) ==
  /\ hdrCall.op = "none"
  /\ hdrCall' = [op |-> "Get", key |-> key, res |-> HeaderGet(hdr, key)]
  /\ UNCHANGED <<muxVars, stream, parseRes, respondRes, hdr, hdrLog,
                 binHeaders, binRes, extVars, srvVars, apps>>

\* h.Write(w) and the blank line Response.write puts after the block, the
\* map ranged over in some order, then the bytes read back with
\* ReadMIMEHeader.
HeaderWriteCall(order) ==
  /\ hdrCall.op = "none"
  /\ LET wire == HeaderWrite(hdr, order) \o <<"CR", "LF">> IN
       hdrCall' = [op |-> "Write", wire |-> wire,
                   parsed |-> ParseMIMEHeader(wire, 0, NewHeader)]
  /\ UNCHANGED <<muxVars, stream, parseRes, respondRes, hdr, hdrLog,
                 binHeaders, binRes, extVars, srvVars, apps>>

InitHeader ==
  /\ mux = NewServeMux
  /\ MuxInit
  /\ stream = EmptyStream
  /\ CallInit
  /\ HdrInit
  /\ BinIdle
  /\ ExtIdle
  /\ srvHandler = "nil"
  /\ SrvInit

NextHeader ==
  \/ \E key \in HdrKeys, value \in HdrValues : HeaderAddCall(key, value)
  \/ \E key \in HdrKeys, value \in HdrValues : HeaderSetCall(key, value)
  \/ \E key \in HdrKeys : HeaderGetCall(key)
  \/ \E order \in RangeOrders(DOMAIN hdr) : HeaderWriteCall(order)

SpecHeader == InitHeader /\ [][NextHeader]_vars

\* ------------------------------------------------------------ ReadBinaries
\* One ReadBinaries call: the headers of a request whose directive line and
\* header blocks have been read, and the reader positioned on what follows
\* them.

MaxTail == 5

sResourceUpper ==
  <<"X", "-", "G", "r", "o", "w", "l", "-", "R", "e", "s", "o", "u", "r",
    "c", "e", ":", "/", "/">>

\* the headers argument: no reference, one, one spelled in upper case, two
\* in two blocks, one of each spelling in one block
BinHeaderSets ==
  {<<(sKeys.ApplicationName :> <<<<"a">>>>)>>,
   <<(sKeys.NotificationIcon :> <<sResourcePrefix \o <<"a">>>>)>>,
   <<(sKeys.NotificationIcon :> <<sResourceUpper \o <<"a">>>>)>>,
   <<(sKeys.ApplicationIcon :> <<sResourcePrefix \o <<"a">>>>),
     (sKeys.NotificationIcon :> <<sResourcePrefix \o <<"b">>>>)>>,
   <<(sKeys.ApplicationIcon :> <<sResourcePrefix \o <<"a">>>>)
       @@ (sKeys.NotificationIcon :> <<sResourceUpper \o <<"b">>>>)>>}

\* the header block of a section
MiniHeader(ident, length) ==
  (sKeys.Identifier :> <<ident>>) @@ (sKeys.Length :> <<length>>)

\* a length of 10^15, beyond what the runtime allocates
sHugeLength ==
  <<"1", "0", "0", "0", "0", "0", "0", "0", "0", "0", "0", "0", "0", "0", "0",
    "0">>

\* the header block of the last section the peer sent
LastBlocks ==
  {MiniHeader(<<"b">>, <<"0">>), MiniHeader(<<"b">>, <<"1">>),
   MiniHeader(<<"b">>, <<"2">>), MiniHeader(<<"b">>, sHugeLength),
   MiniHeader(<<"b">>, <<"x">>), MiniHeader(<<"b">>, <<"-", "1">>),
   (sKeys.Identifier :> <<<<"b">>>>), (sKeys.Length :> <<<<"1">>>>),
   (sKeys.ApplicationName :> <<<<"a">>>>)}

\* the bytes that follow it: payload bytes and end-of-line bytes
BinTails == UNION {[1..n -> {"a", "CR", "LF"}] : n \in 0..MaxTail}

\* What the peer sent after the request's header blocks: nothing or one
\* complete section (header block, payload of the declared length, two
\* CRLF), then nothing or the header block of a last section, then any
\* bytes.
BinStreams ==
  {Stream(<<>>, first.items \o last, first.bytes \o tail) :
     first \in {[items |-> <<>>, bytes |-> <<>>],
                [items |-> <<MiniHeader(<<"a">>, <<"1">>)>>,
                 bytes |-> <<"a", "CR", "LF", "CR", "LF">>]},
     last \in {<<>>} \cup {<<b>> : b \in LastBlocks},
     tail \in BinTails}

\* the reader after the directive line
BinStartPos == [n |-> 1, off |-> 0]

\* ReadBinaries(b, headers, binaries)
ReadBinariesCall ==
  /\ ~binRes.called
  /\ binRes' = [called |-> TRUE,
                res |-> ReadBinaries(stream, BinStartPos, binHeaders)]
  /\ UNCHANGED <<muxVars, stream, parseRes, respondRes, hdr, hdrLog, hdrCall,
                 binHeaders, extVars, srvVars, apps>>

InitBin ==
  /\ mux = NewServeMux
  /\ MuxInit
  /\ stream \in BinStreams
  /\ CallInit
  /\ HdrInit
  /\ binHeaders \in BinHeaderSets
  /\ binRes = NotCalled
  /\ ExtIdle
  /\ srvHandler = "nil"
  /\ SrvInit

NextBin == ReadBinariesCall

SpecBin == InitBin /\ [][NextBin]_vars

\* ------------------------------------------------------------ round trip
\* The binaries of one Response written by Response.write, and the bytes
\* read back by ReadBinaries.

MaxData == 2

\* The bytes PrintfLine puts on the wire for a line of the binaries loop.
LineBytes(text) ==
  (IF Len(text) = 0 THEN <<>>
   ELSE IF text[1] = "Identifier: "
   THEN sKeys.Identifier \o <<":", " ">> \o text[2]
   ELSE sKeys.Length \o <<":", " ">> \o strconvItoa(text[2]))
    \o <<"CR", "LF">>

\* The bytes of what the binaries loop of Response.write wrote.
RECURSIVE ItemsBytes(_)
ItemsBytes(items) ==
  IF Len(items) = 0 THEN <<>>
  ELSE (IF items[1].k = "line" THEN LineBytes(items[1].text)
        ELSE items[1].bytes) \o ItemsBytes(Tail(items))

\* a *Binary whose Data has Length bytes
BinaryOf(data) == [nil |-> FALSE, Length |-> Len(data), Data |-> data]

\* resp.Binaries: up to two binaries a and b with payloads of up to
\* MaxData bytes, line feeds among them, and the order in which the map
\* is ranged over
BinaryMaps ==
  LET datas == UNION {[1..n -> {"x", "LF"}] : n \in 0..MaxData} IN
  {[bins |-> <<>>, order |-> <<>>]}
    \cup {[bins |-> (id :> BinaryOf(d)), order |-> <<id>>] :
            id \in {<<"a">>, <<"b">>}, d \in datas}
    \cup {[bins |-> (<<"a">> :> BinaryOf(d1)) @@ (<<"b">> :> BinaryOf(d2)),
           order |-> o] :
            d1 \in datas, d2 \in datas,
            o \in {<< <<"a">>, <<"b">> >>, << <<"b">>, <<"a">> >>}}

\* a header block that refers to each of the binaries once
ReferringBlock(order) ==
  IF Len(order) = 0 THEN (sKeys.ApplicationName :> <<<<"a">>>>)
  ELSE (sKeys.NotificationIcon :>
          [i \in 1..Len(order) |-> sResourcePrefix \o order[i]])

\* The binaries loop of Response.write.
WriteBinariesCall ==
  /\ ~binWire.called
  /\ binWire' = [binWire EXCEPT
                   !.called = TRUE,
                   !.bytes = ItemsBytes(WriteBinaries(binWire.bins,
                                                      binWire.order).out)]
  /\ UNCHANGED <<muxVars, stream, parseRes, respondRes, libVars, reqs, hist,
                 srvVars, apps>>

\* ReadBinaries on the bytes written, with headers that refer to each of
\* the binaries.
ReadBackCall ==
  /\ binWire.called
  /\ ~binWire.read.called
  /\ binWire' = [binWire EXCEPT
                   !.read = [called |-> TRUE,
                             res |-> ReadBinaries(
                                       Stream(<<>>, <<>>, binWire.bytes),
                                       BinStartPos,
                                       <<ReferringBlock(binWire.order)>>)]]
  /\ UNCHANGED <<muxVars, stream, parseRes, respondRes, libVars, reqs, hist,
                 srvVars, apps>>

InitWire ==
  /\ mux = NewServeMux
  /\ MuxInit
  /\ stream = EmptyStream
  /\ CallInit
  /\ HdrInit
  /\ BinIdle
  /\ binWire \in {[called |-> FALSE, bins |-> m.bins, order |-> m.order,
                   bytes |-> <<>>, read |-> NotCalled] : m \in BinaryMaps}
  /\ reqs = <<>>
  /\ hist = <<>>
  /\ srvHandler = "nil"
  /\ SrvInit

NextWire == WriteBinariesCall \/ ReadBackCall

SpecWire == InitWire /\ [][NextWire]_vars

\* ------------------------------------------------------------ registry
\* REGISTER and NOTIFY requests handled by concurrent connection tasks on
\* the one application registry.  A task parses its request, then runs
\* the handler's Respond; RegisterHandler.Respond takes two steps, the
\* building of the Application and its Add.

TaskIds == 1..MaxTasks

sVersion(major, minor) == sGNTP \o <<major, ".", minor>>

\* the requests: REGISTER Foo with the notification Bar and without it,
\* NOTIFY Foo/Bar, each under several protocol versions
AppStreams ==
  {Stream(Join3(sVersion(v[1], v[2]), sREGISTER, sNONE),
          <<AppBlock(vFoo, <<"1">>), NoteBlock(vBar)>>, <<>>) :
     v \in {<<"1", "0">>, <<"2", "1">>}}
  \cup {Stream(Join3(sVersion(v[1], v[2]), sREGISTER, sNONE),
               <<AppBlock(vFoo, <<"0">>)>>, <<>>) :
          v \in {<<"1", "0">>, <<"1", "1">>}}
  \cup {Stream(Join3(sVersion(v[1], v[2]), sNOTIFY, sNONE),
               <<NotifyBlock(vFoo, vBar)>>, <<>>) :
          v \in {<<"1", "0">>, <<"2", "0">>, <<"2", "1">>}}

NoTask ==
  [pc |-> "idle", parse |-> NotCalled, res |-> NotCalled, seen |-> NotCalled,
   since |-> 0, until |-> 0, during |-> {}]

\* An Application that other tasks can reach while it is being built.
PublishedWhileBuilding_Shared(table, headers) ==
  LET name == HeaderGet(headers[1], sKeys.ApplicationName).v
      count == strconvAtoi(HeaderGet(headers[1], sKeys.NotificationsCount).v).n
  IN ApplicationsAdd(table, [Name |-> name,
                            Icon |-> HeaderGet(headers[1],
                                               sKeys.ApplicationIcon).v,
                            Count |-> count, Notifications |-> <<>>])

\* The registry other tasks see while buildApplication runs: the
\* Application under construction is a local of buildApplication.
PublishedWhileBuilding(table, headers) == table

\* A connection task reads its request: mux.Parse.
TaskParse(t, s) ==
  /\ reqs[t].pc = "idle"
  /\ \A u \in TaskIds : u < t => reqs[u].pc # "idle"
  /\ LET p == MuxParse(mux, s, NilRequest) IN
       reqs' = [reqs EXCEPT
                  ![t].parse = [called |-> TRUE, res |-> p],
                  ![t].since = Len(hist),
                  ![t].pc = IF p.panicked \/ p.err.dyn # "nil" THEN "done"
                            ELSE "parsed"]
  /\ UNCHANGED <<muxVars, stream, parseRes, respondRes, libVars, binWire,
                 hist, srvVars, apps>>

\* RegisterHandler.Respond up to the return of buildApplication.
RegisterBuild(t) ==
  /\ reqs[t].pc = "parsed"
  /\ reqs[t].parse.res.handler = "RegisterHandler"
  /\ LET req == reqs[t].parse.res.req
         r == RegisterRespond(req, apps)
     IN IF r.panicked \/ r.err.dyn # "nil"
        THEN /\ reqs' = [reqs EXCEPT ![t].pc = "done",
                                     ![t].res = [called |-> TRUE, res |-> r],
                                     ![t].until = Len(hist)]
             /\ apps' = apps
        ELSE /\ reqs' = [reqs EXCEPT ![t].pc = "built"]
             /\ apps' = PublishedWhileBuilding(apps, req.Headers)
  /\ UNCHANGED <<muxVars, stream, parseRes, respondRes, libVars, binWire,
                 hist, srvVars>>

\* The rest of RegisterHandler.Respond: handler.apps.Add(app) and the
\* response.
RegisterAdd(t) ==
  /\ reqs[t].pc = "built"
  /\ LET req == reqs[t].parse.res.req
         r == RegisterRespond(req, apps)
     IN /\ reqs' = [reqs EXCEPT ![t].pc = "done",
                                ![t].res = [called |-> TRUE, res |-> r],
                                ![t].until = Len(hist) + 1]
        /\ apps' = r.apps
        /\ hist' = Append(hist, [by |-> t,
                                 app |-> buildApplication(req.Headers).app])
  /\ UNCHANGED <<muxVars, stream, parseRes, respondRes, libVars, binWire,
                 srvVars>>

\* NotifyHandler.Respond: the registry is read once, under its read lock,
\* by apps.Get; seen is what that call returned.  during is the set of tasks that are inside
\* RegisterHandler.Respond at that moment.
NotifyRespondCall(t) ==
  /\ reqs[t].pc = "parsed"
  /\ reqs[t].parse.res.handler = "NotifyHandler"
  /\ LET req == reqs[t].parse.res.req
         r == NotifyRespond(req, apps)
         appName == HeaderGet(req.Headers[1], sKeys.ApplicationName).v
     IN reqs' = [reqs EXCEPT
                   ![t].pc = "done",
                   ![t].res = [called |-> TRUE, res |-> r],
                   ![t].seen = IF req.Major # 1 /\ req.Minor # 0
                               THEN NotCalled
                               ELSE IF appName \in DOMAIN apps
                               THEN [called |-> TRUE, found |-> TRUE,
                                     app |-> apps[appName]]
                               ELSE [called |-> TRUE, found |-> FALSE],
                   ![t].until = Len(hist),
                   ![t].during = {u \in TaskIds : reqs[u].pc = "built"}]
  /\ UNCHANGED <<muxVars, stream, parseRes, respondRes, libVars, binWire,
                 hist, srvVars, apps>>

InitApps ==
  /\ mux = MainServeMux
  /\ MuxInit
  /\ stream = EmptyStream
  /\ CallInit
  /\ HdrInit
  /\ BinIdle
  /\ binWire = NotCalled
  /\ reqs = [t \in TaskIds |-> NoTask]
  /\ hist = <<>>
  /\ srvHandler = "nil"
  /\ SrvInit

NextApps ==
  \/ \E t \in TaskIds, s \in AppStreams : TaskParse(t, s)
  \/ \E t \in TaskIds : RegisterBuild(t)
  \/ \E t \in TaskIds : RegisterAdd(t)
  \/ \E t \in TaskIds : NotifyRespondCall(t)

SpecApps == InitApps /\ [][NextApps]_vars

\* ------------------------------------------------------------ claims
\* A reading of the directive line that does not go through SplitN3, atoi
\* or parseGntpVersion.

SpaceCount(s) == Cardinality({i \in 1..Len(s) : s[i] = " "})

FirstSpace(s) ==
  CHOOSE i \in 1..Len(s) : s[i] = " " /\ \A j \in 1..(i - 1) : s[j] # " "

SecondSpace(s) ==
  CHOOSE i \in (FirstSpace(s) + 1)..Len(s) :
    s[i] = " " /\ \A j \in (FirstSpace(s) + 1)..(i - 1) : s[j] # " "

Token1(s) == IF SpaceCount(s) = 0 THEN s ELSE SubSeq(s, 1, FirstSpace(s) - 1)

Token2(s) == SubSeq(s, FirstSpace(s) + 1, SecondSpace(s) - 1)

Remainder(s) == SubSeq(s, SecondSpace(s) + 1, Len(s))

AllDigits(d) == Len(d) > 0 /\ \A i \in 1..Len(d) : d[i] \in Digits

DotPositions(tok) ==
  {d \in 6..Len(tok) : /\ tok[d] = "."
                       /\ AllDigits(SubSeq(tok, 6, d - 1))
                       /\ AllDigits(SubSeq(tok, d + 1, Len(tok)))}

\* tok is the literal GNTP/ followed by two decimal integers and a dot
IsVersionToken(tok) ==
  Len(tok) >= 5 /\ SubSeq(tok, 1, 5) = sGNTP /\ DotPositions(tok) # {}

MajorOf(tok) ==
  LET d == CHOOSE d \in DotPositions(tok) : TRUE IN DecVal(SubSeq(tok, 6, d - 1))

MinorOf(tok) ==
  LET d == CHOOSE d \in DotPositions(tok) : TRUE
  IN DecVal(SubSeq(tok, d + 1, Len(tok)))

\* The handler the Register calls in log leave for type t.
FirstRegistered(log, t) ==
  IF \E i \in 1..Len(log) : log[i].t = t
  THEN log[CHOOSE i \in 1..Len(log) :
             log[i].t = t /\ \A j \in 1..(i - 1) : log[j].t # t].h
  ELSE UnhandledHandler(t)

\* The round trip's Parse read a directive line of three tokens whose first
\* token passed version parsing.
ParsedDirective ==
  /\ parseRes.called
  /\ stream.hasLine
  /\ SpaceCount(stream.line) >= 2
  /\ IsVersionToken(Token1(stream.line))
  /\ parseGntpVersion(Token1(stream.line)).ok

\* C6: for a directive line GNTP/a.b TYPE sec that passes version parsing,
\* Parse sets major a, minor b and type TYPE; it calls the handler for TYPE
\* only when sec, the whole remainder after the second space, is NONE, and
\* otherwise returns "unsupported encryption" without calling a handler.
C6_DirectiveFields ==
  ParsedDirective =>
    LET line == stream.line
        res == parseRes.res
        table == SubSeq(regLog, 1, parseRes.nregs)
    IN /\ ~res.req.nil =>
            /\ res.req.Major = MajorOf(Token1(line))
            /\ res.req.Minor = MinorOf(Token1(line))
            /\ res.req.Type = Token2(line)
       /\ Remainder(line) = sNONE =>
            res.handler = FirstRegistered(table, Token2(line)).kind
       /\ Remainder(line) # sNONE =>
            /\ res.handler = "none"
            /\ ~res.panicked
            /\ res.err = [dyn |-> "GntpError", Code |-> 300,
                          Description |-> <<"The request was malformed: ",
                                            <<"unsupported encryption">>>>]
            /\ res.req.Type = Token2(line)

C6_Witness ==
  /\ ParsedDirective
  /\ Token2(stream.line) = sNOTIFY
  /\ Remainder(stream.line) = sNONE \o <<" ", "x">>
  /\ FirstRegistered(SubSeq(regLog, 1, parseRes.nregs), sNOTIFY) = NotifyHandler
  /\ parseRes.res.handler = "none"

IsUnknownProtocol(res, line) ==
  /\ ~res.panicked
  /\ res.err = [dyn |-> "GntpError", Code |-> 301,
                Description |-> <<"Unknown protocol: ", line>>]

\* C7 as stated: Parse fails with unknown protocol (301) carrying the raw
\* line exactly when the line has fewer than three tokens or its first token
\* is not GNTP/<int>.<int>, whatever the magnitude of the integers.
C7_AnyMagnitude ==
  (parseRes.called /\ stream.hasLine) =>
    (IsUnknownProtocol(parseRes.res, stream.line)
       <=> \/ SpaceCount(stream.line) < 2
           \/ ~IsVersionToken(Token1(stream.line)))

\* C7 amended: ... or its first token is not GNTP/<int>.<int> with both
\* integers at most 1000000.
C7_UpToBig ==
  (parseRes.called /\ stream.hasLine) =>
    (IsUnknownProtocol(parseRes.res, stream.line)
       <=> \/ SpaceCount(stream.line) < 2
           \/ ~IsVersionToken(Token1(stream.line))
           \/ MajorOf(Token1(stream.line)) > 1000000
           \/ MinorOf(Token1(stream.line)) > 1000000)

C7_Witness ==
  /\ parseRes.called
  /\ stream.hasLine
  /\ SpaceCount(stream.line) >= 2
  /\ IsVersionToken(Token1(stream.line))
  /\ MajorOf(Token1(stream.line)) = 1000000
  /\ ~IsUnknownProtocol(parseRes.res, stream.line)

C9_FirstRegistration ==
  /\ \A t \in TypeTokens : muxHandler(mux, t) = FirstRegistered(regLog, t)
  /\ DOMAIN mux = {regLog[i].t : i \in 1..Len(regLog)}
  /\ \A i \in 1..Len(regLog) :
       regLog[i].panicked <=> \E j \in 1..(i - 1) : regLog[j].t = regLog[i].t
  /\ regPc = "idle" => ~muLocked
  /\ (parseRes.called /\ parseRes.res.handler # "none") =>
       parseRes.res.handler =
         FirstRegistered(SubSeq(regLog, 1, parseRes.nregs),
                         Token2(stream.line)).kind
  /\ respondRes.called =>
       respondRes.res.handler =
         FirstRegistered(SubSeq(regLog, 1, respondRes.nregs),
                         Token2(stream.line)).kind

C9_Witness ==
  /\ Len(regLog) = 2
  /\ regLog[1].t = sNOTIFY /\ regLog[1].h = RegisterHandler
  /\ regLog[2].t = sNOTIFY /\ regLog[2].h = NotifyHandler
  /\ regLog[2].panicked
  /\ regPc = "idle"
  /\ respondRes.called
  /\ respondRes.nregs = 2
  /\ respondRes.res.handler = "RegisterHandler"


\* ------------------------------------------------------------ claims on
\* the server

Finished(c) == conns[c].pc = "finished"

\* The decimal numeral of an error code of the taxonomy.
CodeDigits(code) ==
  CASE code = 300 -> <<"3", "0", "0">>
    [] code = 301 -> <<"3", "0", "1">>
    [] code = 302 -> <<"3", "0", "2">>
    [] code = 303 -> <<"3", "0", "3">>
    [] code = 400 -> <<"4", "0", "0">>
    [] code = 401 -> <<"4", "0", "1">>
    [] code = 500 -> <<"5", "0", "0">>

\* out is exactly one ERROR response with this code and description: its
\* directive line, one header block and the blank line that ends it.
IsErrorResponseOf(out, code, description) ==
  /\ Len(out) = 3
  /\ out[1] = [k |-> "directive", Major |-> 1, Minor |-> 0, Type |-> "ERROR",
               Security |-> "NONE"]
  /\ out[2].k = "header"
  /\ DOMAIN out[2].h = {sKeys.ErrorCode, sKeys.ErrorDescription}
  /\ out[2].h[sKeys.ErrorCode] = <<CodeDigits(code)>>
  /\ out[2].h[sKeys.ErrorDescription] = <<description>>
  /\ out[3] = [k |-> "line", text |-> <<>>]

sInternalError == <<"The server encountered an internal error">>

\* C1: once an Exit invoked while the accept loop runs has returned, no
\* further connection is accepted, and when Start has returned nil every
\* accepted connection, including one whose task had not yet registered
\* with the wait group when the loop ended, has finished serve.
C1_ExitThenDrain ==
  /\ exitAt = "accept" => \A c \in ConnIds : ~conns[c].acceptedAfterExit
  /\ (startPc = "returned" /\ startErr = "nil")
       => \A c \in ConnIds : conns[c].pc \in {"none", "finished"}

\* C2: with the handlers main registers, when Parse succeeded and Respond
\* returned an error of the taxonomy, the peer receives the ERROR response
\* with that error's own code and description, never the generic 500
\* response.
C2_RespondErrorOwnCode ==
  \A c \in ConnIds :
    (/\ srvHandler = "nil"
     /\ Finished(c)
     /\ conns[c].respond.called
     /\ ~conns[c].respond.res.panicked
     /\ conns[c].respond.res.err.dyn \in {"GntpError", "*GntpError"})
      => IsErrorResponseOf(conns[c].sock, conns[c].respond.res.err.Code,
                           conns[c].respond.res.err.Description)

\* C3: a panic raised in Parse, Respond or the response write is recovered
\* in its own task: the task finishes with the socket closed and no
\* response bytes written to it, and its wait group registration is removed.
C3_PanicLeavesNoBytes ==
  /\ \A c \in ConnIds :
       (Finished(c) /\ conns[c].panicAt # "none")
         => /\ conns[c].recovered
            /\ conns[c].rwc = "closed"
            /\ conns[c].sock = <<>>
  /\ (\A c \in ConnIds : conns[c].pc \in {"none", "spawned", "finished"})
       => wg = 0

\* C4 as stated: a panic raised while serving a connection is surfaced to
\* the peer as an ERROR response with code 500 before the connection is
\* closed.
C4_PanicSends500 ==
  \A c \in ConnIds :
    (Finished(c) /\ conns[c].panicAt # "none")
      => IsErrorResponseOf(conns[c].sock, 500, sInternalError)

\* C4 amended: a panic is not surfaced to the peer.  The recovery writes
\* nothing: the peer has received only what the response write had
\* produced before the fault, nothing at all when the panic was raised in
\* Parse or Respond, and the socket is closed.
C4_PanicNotSurfaced ==
  \A c \in ConnIds :
    (Finished(c) /\ conns[c].panicAt # "none")
      => /\ conns[c].recovered
         /\ conns[c].rwc = "closed"
         /\ conns[c].sock = conns[c].buf
         /\ conns[c].panicAt \in {"Parse", "Respond"} => conns[c].sock = <<>>
         /\ conns[c].resp.nil => conns[c].sock = <<>>

\* A task has finished after a panic raised in Respond.
C4_Witness ==
  \E c \in ConnIds :
    /\ Finished(c)
    /\ conns[c].panicAt = "Respond"
    /\ conns[c].recovered
    /\ conns[c].sock = <<>>

\* C5: when Parse fails, Respond is not called and exactly one ERROR
\* response is written: with the error's own code and description when the
\* error is a GntpError, with code 500 and the internal-server-error
\* description for any other error, end of stream on the directive line
\* included.
C5_ParseErrorResponse ==
  \A c \in ConnIds :
    (/\ Finished(c)
     /\ conns[c].parse.called
     /\ ~conns[c].parse.res.panicked
     /\ conns[c].parse.res.err.dyn # "nil")
      => /\ ~conns[c].respond.called
         /\ ~conns[c].recovered
         /\ IF conns[c].parse.res.err.dyn = "GntpError"
            THEN IsErrorResponseOf(conns[c].sock, conns[c].parse.res.err.Code,
                                   conns[c].parse.res.err.Description)
            ELSE IsErrorResponseOf(conns[c].sock, 500, sInternalError)
         /\ (srvHandler = "nil" /\ conns[c].stream = EmptyStream)
              => IsErrorResponseOf(conns[c].sock, 500, sInternalError)

\* A task has answered a REGISTER without Notifications-Count with exactly
\* one ERROR response of code 303, and Respond was not called.
C5_Witness ==
  \E c \in ConnIds :
    /\ Finished(c)
    /\ srvHandler = "nil"
    /\ conns[c].parse.res.err.dyn = "GntpError"
    /\ conns[c].parse.res.err.Code = 303
    /\ ~conns[c].respond.called
    /\ IsErrorResponseOf(conns[c].sock, 303,
                         <<"Required header ", <<"Notifications-Count">>,
                           " missing">>)

\* C10: if Exit is invoked after Start was invoked and before Start has
\* returned, also before Start has stored its listener, then Start
\* eventually returns nil (or the error of a failed Listen).
C10_ExitEndsStart ==
  (exitPc # "idle" /\ exitAt \in {"listen", "accept"})
    ~> (startPc = "returned" /\ startErr \in {"nil", "listenErr"})

\* C11: whenever Start returns after its accept loop has ended, by a
\* requested shutdown or by a permanent Accept error with no shutdown
\* requested, the wait group counter is zero at the moment of the return.
C11_CounterZeroAtReturn ==
  [][(startPc = "accept" \/ startPc = "wait") /\ startPc' = "returned"
       => wg' = 0]_vars

\* C12: a connection task calls Parse at most once, then Respond at most
\* once and only if that Parse succeeded, then the response write at most
\* once, in that order; and on every path out of serve the socket has been
\* closed exactly once.
C12_OneCycleOneClose ==
  \A c \in ConnIds :
    /\ conns[c].calls \in {<<>>, <<"Parse">>, <<"Parse", "write">>,
                           <<"Parse", "Respond">>,
                           <<"Parse", "Respond", "write">>}
    /\ (Len(conns[c].calls) >= 2 /\ conns[c].calls[2] = "Respond")
         => /\ ~conns[c].parse.res.panicked
            /\ conns[c].parse.res.err.dyn = "nil"
    /\ conns[c].closes <= 1
    /\ Finished(c) => conns[c].closes = 1 /\ conns[c].rwc = "closed"
    /\ ~Finished(c) => conns[c].closes = 0

\* A task has left serve by a panic in Respond, after one Parse and one
\* Respond, with its socket closed once.
C12_Witness ==
  \E c \in ConnIds :
    /\ Finished(c)
    /\ conns[c].panicAt = "Respond"
    /\ conns[c].calls = <<"Parse", "Respond">>
    /\ conns[c].closes = 1

\* ------------------------------------------------------------ claims on
\* Header.  The values a key should hold are read off the log of the calls,
\* with keys compared in lower case.

LowerKey(key) == [i \in 1..Len(key) |-> ToLower(key[i])]

SameKey(a, b) == LowerKey(a) = LowerKey(b)

\* index of the last Set of key in log, 0 if there is none
LastSet(log, key) ==
  LET sets == {i \in 1..Len(log) : log[i].op = "Set" /\ SameKey(log[i].key, key)}
  IN IF sets = {} THEN 0 ELSE CHOOSE i \in sets : \A j \in sets : j <= i

\* the values given to key from its last Set on (from the start if it was
\* never Set), in the order of the calls
RECURSIVE ValuesFrom(_, _, _)
ValuesFrom(log, key, i) ==
  IF i > Len(log) THEN <<>>
  ELSE (IF SameKey(log[i].key, key) THEN <<log[i].value>> ELSE <<>>)
       \o ValuesFrom(log, key, i + 1)

ValuesSince(log, key) ==
  ValuesFrom(log, key, IF LastSet(log, key) = 0 THEN 1 ELSE LastSet(log, key))

\* C19: after any sequence of Add and Set calls, with keys matched without
\* regard to case, the values stored for a key are those given to it since
\* its last Set, that Set's value first, in call order; Get returns the
\* first of them and true, or "" and false when there are none.
C19_AddSetGet ==
  \A key \in HdrKeys :
    LET want == ValuesSince(hdrLog, key)
        held == {k \in DOMAIN hdr : SameKey(k, key)}
    IN /\ want = <<>> => held = {}
       /\ want # <<>> => /\ Cardinality(held) = 1
                         /\ \A k \in held : hdr[k] = want
       /\ (hdrCall.op = "Get" /\ hdrCall.key = key) =>
            hdrCall.res = IF want = <<>> THEN [v |-> <<>>, ok |-> FALSE]
                          ELSE [v |-> want[1], ok |-> TRUE]

\* A Set and an Add of one key under two spellings, then a Get under a
\* third that returns the Set's value.
C19_Witness ==
  /\ Len(hdrLog) = 2
  /\ hdrLog[1].op = "Set" /\ hdrLog[2].op = "Add"
  /\ hdrLog[1].key # hdrLog[2].key
  /\ SameKey(hdrLog[1].key, hdrLog[2].key)
  /\ hdrLog[1].value # hdrLog[2].value
  /\ hdrCall.op = "Get"
  /\ hdrCall.key = hdrLog[2].key
  /\ hdrCall.res = [v |-> hdrLog[1].value, ok |-> TRUE]
  /\ hdr[CanonicalMIMEHeaderKey(hdrLog[1].key)]
       = <<hdrLog[1].value, hdrLog[2].value>>

\* a value Write puts on the wire as it is: no line break in it and no
\* white space at either end
CleanValue(v) ==
  /\ \A i \in 1..Len(v) : v[i] \notin {"CR", "LF"}
  /\ Len(v) > 0 => /\ v[1] \notin {" ", "TAB"}
                   /\ v[Len(v)] \notin {" ", "TAB"}

CleanBlock(h) == \A k \in DOMAIN h : \A i \in 1..Len(h[k]) : CleanValue(h[k][i])

\* C20 as stated: whatever the header block, writing it with Header.Write
\* and a blank line and reading the bytes back as a MIME header block gives
\* the same mapping from canonical key to ordered values.
C20_WriteThenParse ==
  hdrCall.op = "Write" =>
    /\ hdrCall.parsed.err = NoError
    /\ hdrCall.parsed.h = hdr

\* C20 restricted: a header block whose values hold no line break and no
\* white space at either end is read back from the bytes Header.Write and
\* the blank line put on the wire as the same mapping from canonical key to
\* ordered values, and the whole of the bytes is consumed.
C20_CleanWriteThenParse ==
  (hdrCall.op = "Write" /\ CleanBlock(hdr)) =>
    /\ hdrCall.parsed.err = NoError
    /\ hdrCall.parsed.h = hdr
    /\ hdrCall.parsed.off = Len(hdrCall.wire)

\* A block with two different clean values under one key, written and
\* read back.
C20_Witness ==
  /\ hdrCall.op = "Write"
  /\ CleanBlock(hdr)
  /\ \E k \in DOMAIN hdr : Len(hdr[k]) = 2 /\ hdr[k][1] # hdr[k][2]
  /\ hdrCall.parsed.h = hdr

\* ------------------------------------------------------------ claims on
\* ReadBinaries.  The input is read directly: which header values are
\* references, what the first section declares and which bytes follow its
\* payload.

\* v starts with p, letters compared as they are or without regard to case
StartsWith(v, p, fold) ==
  /\ Len(v) >= Len(p)
  /\ \A i \in 1..Len(p) :
       IF fold THEN ToLower(v[i]) = ToLower(p[i]) ELSE v[i] = p[i]

\* the places (block, key, index) of the header values that are references
References(headers, fold) ==
  {t \in UNION {UNION {{<<i, k, j>> : j \in 1..Len(headers[i][k])}
                       : k \in DOMAIN headers[i]}
                : i \in 1..Len(headers)}
     : StartsWith(headers[t[1]][t[2]][t[3]], sResourcePrefix, fold)}

\* the length of the end-of-line marker at off in b, 0 if there is none
MarkerAt(b, off) ==
  IF off + 1 <= Len(b) /\ b[off + 1] = "LF" THEN 1
  ELSE IF off + 2 <= Len(b) /\ b[off + 1] = "CR" /\ b[off + 2] = "LF" THEN 2
  ELSE 0

\* the length of the two end-of-line markers at off in b, 0 if there are not two
TwoMarkersAt(b, off) ==
  IF MarkerAt(b, off) = 0 \/ MarkerAt(b, off + MarkerAt(b, off)) = 0 THEN 0
  ELSE MarkerAt(b, off) + MarkerAt(b, off + MarkerAt(b, off))

\* ReadBinaries was called for exactly one section and the stream opens
\* with a header block that has an Identifier and a decimal Length
OneDeclaredSection ==
  /\ binRes.called
  /\ Cardinality(References(binHeaders, FALSE)) = 1
  /\ Len(stream.items) >= 1
  /\ sKeys.Identifier \in DOMAIN stream.items[1]
  /\ sKeys.Length \in DOMAIN stream.items[1]
  /\ LET d == stream.items[1][sKeys.Length][1] IN
       Len(d) > 0 /\ \A i \in 1..Len(d) : IsDigit(d[i])

DeclaredIdent == stream.items[1][sKeys.Identifier][1]

DeclaredDigits == stream.items[1][sKeys.Length][1]

MalformedRequest(piece) ==
  [dyn |-> "GntpError", Code |-> 300,
   Description |-> <<"The request was malformed: ", <<DeclaredIdent, piece>>>>]

\* C13: when a section declares Length N and the stream ends before N
\* bytes have arrived, ReadBinaries returns the malformed-request error
\* "<identifier> data incomplete".
C13_ShortPayloadIncomplete ==
  (OneDeclaredSection
     /\ (Len(DeclaredDigits) > 9 \/ DecVal(DeclaredDigits) > Len(stream.bytes)))
    => /\ ~binRes.res.panicked
       /\ binRes.res.err = MalformedRequest(" data incomplete")

\* C14: when no header value begins with the resource prefix, ReadBinaries
\* reads nothing from the stream, calls the storage capability not once
\* and returns an empty map and no error, whatever the stream holds.
C14_NoReferenceNoRead ==
  (binRes.called /\ References(binHeaders, FALSE) = {})
    => /\ binRes.res.pos = BinStartPos
       /\ binRes.res.adds = <<>>
       /\ binRes.res.bs = <<>>
       /\ binRes.res.err = NoError
       /\ ~binRes.res.panicked

\* No reference in the headers, a header block and bytes in the stream.
C14_Witness ==
  /\ binRes.called
  /\ References(binHeaders, FALSE) = {}
  /\ Len(stream.items) = 2
  /\ Len(stream.bytes) > 5
  /\ binRes.res.pos = BinStartPos

\* C15: the number of sections ReadBinaries reads is the number of header
\* values that begin with x-growl-resource://, compared without regard to
\* case; seen on the calls that return no error, where every section
\* asked for reached the storage capability.
C15_CountWithoutCase ==
  (binRes.called /\ ~binRes.res.panicked /\ binRes.res.err = NoError)
    => Len(binRes.res.adds) = Cardinality(References(binHeaders, TRUE))

\* C16: every Binary in the map a successful ReadBinaries returns has
\* Data of exactly Length bytes.
C16_DataHasLength ==
  (binRes.called /\ ~binRes.res.panicked /\ binRes.res.err = NoError)
    => \A id \in DOMAIN binRes.res.bs :
         Len(binRes.res.bs[id].Data) = binRes.res.bs[id].Length

\* C17: when the header block of a section lacks Identifier or Length,
\* ReadBinaries returns the error with code 303 that names the absent
\* field, and the storage capability is not called for that section.
C17_MissingFieldNamed ==
  (binRes.called /\ binRes.res.pos.n > 1)
    => LET last == stream.items[binRes.res.pos.n - 1]
           before == binRes.res.pos.n - 2
       IN /\ sKeys.Identifier \notin DOMAIN last
               => /\ binRes.res.err =
                       [dyn |-> "GntpError", Code |-> 303,
                        Description |-> <<"Required header ",
                                          <<"Binary Identifier">>, " missing">>]
                  /\ Len(binRes.res.adds) = before
          /\ (sKeys.Identifier \in DOMAIN last /\ sKeys.Length \notin DOMAIN last)
               => /\ binRes.res.err =
                       [dyn |-> "GntpError", Code |-> 303,
                        Description |->
                          <<"Required header ",
                            <<"Length for binary ", last[sKeys.Identifier][1]>>,
                            " missing">>]
                  /\ Len(binRes.res.adds) = before

\* A second section whose header block has an Identifier and no Length,
\* after a first one that was stored.
C17_Witness ==
  /\ binRes.called
  /\ binRes.res.pos.n = 3
  /\ sKeys.Identifier \in DOMAIN stream.items[2]
  /\ sKeys.Length \notin DOMAIN stream.items[2]
  /\ Len(binRes.res.adds) = 1
  /\ binRes.res.err.dyn = "GntpError"
  /\ binRes.res.err.Code = 303

\* C18: after the payload of a section ReadBinaries reads two end-of-line
\* markers, each CRLF or a bare LF, and no byte more; anything else after
\* the payload, the end of the stream before both markers included, gives
\* the malformed-request error "<identifier> data not properly terminated".
C18_TwoMarkersOrError ==
  (OneDeclaredSection /\ Len(DeclaredDigits) <= 9
     /\ DecVal(DeclaredDigits) <= Len(stream.bytes))
    => LET n == DecVal(DeclaredDigits)
           m == TwoMarkersAt(stream.bytes, n)
       IN IF m > 0
          THEN /\ binRes.res.err = NoError
               /\ ~binRes.res.panicked
               /\ binRes.res.pos.off = n + m
          ELSE binRes.res.err = MalformedRequest(" data not properly terminated")

\* ------------------------------------------------------------ claims on
\* the counter, the count of a REGISTER and the length of a section

\* the connections whose serve task has started
Served == {c \in ConnIds : conns[c].pc \notin {"none", "spawned"}}

\* C28: whenever the counter of in-flight connections is zero, every
\* connection that has been served has its response flushed and its socket
\* closed: a connection leaves the counter only after its flush and close.
C28_ZeroAfterFlushAndClose ==
  wg = 0 => \A c \in Served : /\ conns[c].writerNil
                              /\ conns[c].rwc = "closed"

\* a REGISTER request whose Notifications-Count is -1
NegativeCountStream ==
  Stream(Join3(sVersion10, sREGISTER, sNONE),
         <<AppBlock(vFoo, <<"-", "1">>)>>, <<>>)

\* C26: a REGISTER request with a negative Notifications-Count is answered
\* with the ERROR response of code 300 that says "notification count must
\* be a non-negative integer"; the connection task does not panic and no
\* application is registered.
C26_NegativeCountAnswered ==
  \A c \in ConnIds :
    (srvHandler = "nil" /\ conns[c].pc = "finished"
       /\ conns[c].stream = NegativeCountStream)
      => /\ ~conns[c].panicking
         /\ IsErrorResponseOf(
              conns[c].sock, 300,
              <<"The request was malformed: ",
                <<"notification count must be a non-negative integer">>>>)
         /\ apps = <<>>

\* C25: a section whose Length is a negative integer makes ReadBinaries
\* return a protocol error, and the storage capability is never called
\* with a negative length.
C25_NegativeLengthRejected ==
  binRes.called =>
    /\ \A i \in 1..Len(binRes.res.adds) : binRes.res.adds[i].length >= 0
    /\ (/\ References(binHeaders, FALSE) # {}
         /\ Len(stream.items) >= 1
         /\ stream.items[1] = MiniHeader(<<"b">>, <<"-", "1">>))
         => /\ ~binRes.res.panicked
            /\ binRes.res.err.dyn = "GntpError"

\* ------------------------------------------------------------ claims on
\* the accept loop

RECURSIVE Pow2(_)
Pow2(n) == IF n = 0 THEN 1 ELSE 2 * Pow2(n - 1)

\* min(5 ms * 2^(k-1), 1 s) in milliseconds
Backoff(k) == IF 5 * Pow2(k - 1) < 1000 THEN 5 * Pow2(k - 1) ELSE 1000

\* the delay is that of the number of consecutive temporary errors, and 0
\* after a connection was accepted
DelayIsBackoff ==
  tempDelay = IF nConsec = 0 THEN 0 ELSE Backoff(nConsec)

\* a step that meets a temporary error leaves Start in its accept loop
TemporaryErrorContinues ==
  nTempErrors' # nTempErrors => startPc = "accept" /\ startPc' = "accept"

\* C23: the delay slept after the k-th consecutive temporary Accept error
\* is min(5 ms * 2^(k-1), 1 s); an accepted connection resets the sequence,
\* so that the next temporary error waits 5 ms again; and a temporary
\* error never ends the accept loop.
C23_BackoffDoublesToCap ==
  []DelayIsBackoff /\ [][TemporaryErrorContinues]_vars

\* The cap was reached, a connection was accepted, and the temporary error
\* met after it waits 5 ms.
C23_Witness ==
  /\ nTempErrors >= 10
  /\ nAccepted = 1
  /\ nConsec = 1
  /\ tempDelay = 5
  /\ startPc = "accept"

\* ------------------------------------------------------------ claims on
\* the lock of the dispatch table

\* C27: while no Register call holds the lock of the dispatch table or
\* waits for it, a task that looks a handler up takes the read lock at
\* once, whichever other tasks are inside a lookup: lookups never block
\* one another.
C27_LookupsDoNotBlock ==
  (~muLocked /\ regPc = "idle")
    => \A t \in LookupTasks \ muReaders : ENABLED HandlerRLock(t)

\* Two tasks inside a lookup at once, after a registration was made.
C27_Witness ==
  /\ Cardinality(muReaders) >= 2
  /\ regPc = "idle"
  /\ Len(regLog) >= 1

\* ------------------------------------------------------------ claims on
\* the binaries of a Response

\* C24: the bytes Response.write puts on the wire for the binaries of a
\* Response are read back by ReadBinaries without error as binaries with
\* the same identifiers and the same lengths.
C24_BinariesReadBack ==
  (binWire.called /\ binWire.read.called) =>
    LET r == binWire.read.res IN
    /\ ~r.panicked
    /\ r.err = NoError
    /\ DOMAIN r.bs = DOMAIN binWire.bins
    /\ \A id \in DOMAIN binWire.bins : r.bs[id].Length = binWire.bins[id].Length

\* with at least one binary in the Response, ReadBinaries returns an error
\* on the bytes written
C24_NoneReadBack ==
  (binWire.called /\ binWire.read.called /\ binWire.order # <<>>)
    => binWire.read.res.err # NoError

\* ---- the registry under concurrent requests
\* The tasks whose handler's Respond has returned.
Responded(kind) ==
  {t \in TaskIds : /\ reqs[t].pc = "done"
                    /\ reqs[t].res.called
                    /\ reqs[t].parse.res.handler = kind}

TaskReq(t) == reqs[t].parse.res.req

\* The registrations task t has made.
AddedBy(t) == {i \in 1..Len(hist) : hist[i].by = t}

\* C22: Respond of the REGISTER and of the NOTIFY handler returns the
\* unknown-protocol-version error for every request whose version is not
\* 1.0 (major is not 1 or minor is not 0), registers no application and
\* forwards no notification.
C22_OtherVersionsRejected ==
  \A t \in Responded("RegisterHandler") \cup Responded("NotifyHandler") :
    (TaskReq(t).Major # 1 \/ TaskReq(t).Minor # 0)
      => /\ ~reqs[t].res.res.panicked
         /\ reqs[t].res.res.err
              = UnknownProtocolVersionError(TaskReq(t).Major, TaskReq(t).Minor)
         /\ reqs[t].res.res.sent = <<>>
         /\ AddedBy(t) = {}

\* The application and the notification a NOTIFY request names.
NotifyApp(t) == HeaderGet(TaskReq(t).Headers[1], sKeys.ApplicationName)

NotifyName(t) == HeaderGet(TaskReq(t).Headers[1], sKeys.NotificationName)

HasTitle(t) == HeaderGet(TaskReq(t).Headers[1], sKeys.NotificationTitle).ok

Lists(app, a, n) == app.Name = a /\ n \in DOMAIN app.Notifications

\* Before task t read its request a REGISTER for its application listing
\* its notification was answered OK, and up to the moment t looked the
\* application up no REGISTER for it without the notification was.
RegisteredBefore(t) ==
  /\ NotifyApp(t).ok /\ NotifyName(t).ok /\ HasTitle(t)
  /\ \E i \in 1..reqs[t].since :
       /\ Lists(hist[i].app, NotifyApp(t).v, NotifyName(t).v)
       /\ \A j \in (i + 1)..reqs[t].until :
            hist[j].app.Name = NotifyApp(t).v
              => Lists(hist[j].app, NotifyApp(t).v, NotifyName(t).v)

AnsweredNotifyOK(t) ==
  LET r == reqs[t].res.res IN
    /\ ~r.panicked
    /\ r.err = NoError
    /\ ~r.resp.nil
    /\ r.resp.Type = "OK"
    /\ HeaderGet(r.resp.Headers[1], sKeys.ResponseAction).ok
    /\ HeaderGet(r.resp.Headers[1], sKeys.ResponseAction).v = sNOTIFY

IsOneZero(t) == TaskReq(t).Major = 1 /\ TaskReq(t).Minor = 0

\* C21 as stated: once a REGISTER for application A listing notification N
\* was answered OK, every later NOTIFY request naming A and N with a title
\* is answered OK with Response-Action NOTIFY, as long as A was not
\* registered again without N.
C21_NotifyAfterRegister ==
  \A t \in Responded("NotifyHandler") :
    RegisteredBefore(t) => AnsweredNotifyOK(t)

\* C21: the same for the NOTIFY requests of protocol version 1.0.
C21_NotifyOneZeroAfterRegister ==
  \A t \in Responded("NotifyHandler") :
    (IsOneZero(t) /\ RegisteredBefore(t)) => AnsweredNotifyOK(t)

\* A NOTIFY of version 1.0 answered OK after the registration it names,
\* with its notification on the channel.
C21_Witness ==
  \E t \in Responded("NotifyHandler") :
    /\ IsOneZero(t)
    /\ RegisteredBefore(t)
    /\ AnsweredNotifyOK(t)
    /\ Len(reqs[t].res.res.sent) = 1

\* The registrations of task t's application that were added before t
\* looked it up.
AddedBefore(t) ==
  {i \in 1..reqs[t].until : hist[i].app.Name = NotifyApp(t).v}

LastOf(is) == CHOOSE i \in is : \A j \in is : j <= i

\* C29: a NOTIFY that runs while REGISTER requests for its application do
\* finds no registration, or the application exactly as the last
\* registration added before its lookup built it: the complete previous
\* one or the complete new one, never one whose notifications are partly
\* built.
C29_CompleteRegistrationSeen ==
  \A t \in Responded("NotifyHandler") :
    reqs[t].seen.called
      => IF AddedBefore(t) = {} THEN ~reqs[t].seen.found
         ELSE /\ reqs[t].seen.found
              /\ reqs[t].seen.app = hist[LastOf(AddedBefore(t))].app

\* A NOTIFY found the previous registration of its application while a
\* REGISTER that lists other notifications for it was between
\* buildApplication and Add.
C29_Witness ==
  \E t \in Responded("NotifyHandler") :
    /\ reqs[t].seen.called
    /\ reqs[t].seen.found
    /\ \E u \in reqs[t].during :
         LET new == buildApplication(TaskReq(u).Headers).app IN
           /\ new.Name = reqs[t].seen.app.Name
           /\ DOMAIN new.Notifications
                # DOMAIN reqs[t].seen.app.Notifications
====
